---- MODULE Spec2Model ----
(***************************************************************************)
(* A state-machine model of the cmsstyle C++ macro (src/src/cmsstyle.C):   *)
(* the caption state of the namespace (luminosity and energy captions,     *)
(* wordmark, extra text, additional lines, logo reference), the style      *)
(* object, the annotation routine CMS_lumi and the stack builder.          *)
(*                                                                         *)
(* Numbers.  The code computes in doubles.  The model computes exactly in  *)
(* fixed point:                                                            *)
(*   - pad margins l, r, t, b        in units of 1e-5  (MarginUnit = 1.0)  *)
(*   - NDC coordinates of a draw     in units of 1e-8  (NdcUnit = 1.0)     *)
(*   - relative text sizes, lumiTextOffset, scaleLumi in units of 1e-2     *)
(*   - the energy of SetEnergy       in units of 1e-4                      *)
(*   - pad pixel sizes W, H          in units of 100 pixels                *)
(* The input sets are chosen so that every product below is an integer in  *)
(* these units (top margins are multiples of 1e-3).                        *)
(***************************************************************************)
EXTENDS Integers, Sequences, FiniteSets, TLC

VARIABLES
    cms_lumi,               \* std::string cms_lumi
    cms_energy,             \* std::string cms_energy
    cmsText,                \* std::string cmsText
    extraText,              \* std::string extraText
    additionalInfo,         \* std::vector<std::string> additionalInfo
    useCmsLogo,             \* std::string useCmsLogo
    cmsTextFont,            \* Font_t cmsTextFont
    cmsTextSize,            \* Double_t cmsTextSize            (1e-2)
    extraTextFont,          \* Font_t extraTextFont
    additionalInfoFont,     \* Font_t additionalInfoFont
    lumiTextSize,           \* Double_t lumiTextSize           (1e-2)
    lumiTextOffset,         \* Double_t lumiTextOffset         (1e-2)
    extraOverCmsTextSize,   \* Double_t extraOverCmsTextSize   (1e-2)
    cmsStyle,               \* TStyle *cmsStyle: NullStyle or the style record
    gROOT,                  \* the ROOT session: current style name, ForceStyle flag
    liveStyles,             \* TStyle objects made by setCMSStyle and not deleted
    modernStyle,            \* the TStyle that is current when the session starts
    usingPalette2D,         \* std::vector<Int_t> usingPalette2D
    histContour,            \* TH2::SetContour of the last operation (0: not called)
    statsCall,              \* changeStatsBox, when it was the last operation
    canvas,                 \* the TCmsCanvas cmsCanvas made, when it was the last operation
    paletteCall,            \* UpdatePalettePosition, when it was the last operation
    envDir,                 \* getenv("CMSSTYLE_DIR"): NoEnv or a directory
    cerr,                   \* what the last operation wrote to std::cerr
    lastOp,                 \* the last operation and its arguments
    privateSeen,            \* history: SetExtraText resolved to a text with "Private"
    lumiCall,               \* locals of CMS_lumi, when it was the last operation
    drawn,                  \* drawText calls of the last operation, in order
    logos,                  \* TCmsCanvas::AddCmsLogo calls of the last operation
    padUpdates,             \* UpdatePad calls of the last operation
    stack                   \* outcome of buildTHStack, when it was the last operation

captionVars == <<cms_lumi, cms_energy, cmsText, extraText, additionalInfo, useCmsLogo>>
fontVars    == <<cmsTextFont, cmsTextSize, extraTextFont, additionalInfoFont,
                 lumiTextSize, lumiTextOffset, extraOverCmsTextSize>>
styleVars   == <<cmsStyle, gROOT, liveStyles, modernStyle, usingPalette2D>>
lumiVars    == <<lumiCall, drawn, logos, padUpdates>>
vars        == <<captionVars, fontVars, styleVars, envDir, cerr, lastOp,
                 privateSeen, lumiVars, stack, histContour, statsCall, canvas,
                 paletteCall>>

(***************************************************************************)
(* Bounds of the model                                                     *)
(***************************************************************************)
MaxInfo == 2                \* additional info lines appended at most

(***************************************************************************)
(* Helpers                                                                 *)
(***************************************************************************)
Max(a, b) == IF a >= b THEN a ELSE b
Abs(a)    == IF a >= 0 THEN a ELSE -a

\* std::string::find(p) != npos
Contains(s, p) ==
    \E i \in 1..(Len(s) - Len(p) + 1) : SubSeq(s, i, i + Len(p) - 1) = p

Op(name, args) == [name |-> name, args |-> args]
NoOp           == Op("none", <<>>)

(***************************************************************************)
(* The environment of the process                                          *)
(***************************************************************************)
NoEnv == "<unset>"                      \* getenv returned nullptr
\* the files fopen(...,"r") can open
ReadableFiles == {"logo.png", "/style/CMS-BW-Label.png"}
Readable(path) == path \in ReadableFiles

(***************************************************************************)
(* The style object                                                        *)
(***************************************************************************)
NullStyle == [name |-> "nullptr"]
\* the TStyle that setCMSStyle builds (the attributes the claims speak of)
\* the palette of a TStyle: a predefined one (0: the one of a new TStyle) or
\* a list of colour indices
NewStylePalette == [predefined |-> 0, colors |-> <<>>]
DefaultStyle ==
    [name |-> "cmsStyle", padGridX |-> FALSE, padGridY |-> FALSE,
     optStat |-> 0, optTitle |-> 0, statFont |-> 42, titleFont |-> 42,
     labelFont |-> 42, palette |-> NewStylePalette]
\* the style ROOT starts with
ModernStyle == [name |-> "Modern", palette |-> NewStylePalette]

(***************************************************************************)
(* Messages on std::cerr                                                   *)
(***************************************************************************)
ErrEnergy   == "ERROR: Unsupported value of the energy"
ErrLogoFile == "ERROR: Indicated file for CMS Logo could not be found"
ErrNoLogo   == "ERROR: Not possible to add the CMS Logo"
WarnLogoOut == "WARNING: CMS-logo outside the frame is not supported"
WarnInfoOut == "WARNING: Additional Info outside the frame is not supported"

(***************************************************************************)
(* Number formatting of std::stringstream (SetLumi).  A luminosity is an   *)
(* integer number of hundredths, 0 <= v < 10^6.                            *)
(***************************************************************************)
DigitStr == <<"0", "1", "2", "3", "4", "5", "6", "7", "8", "9">>

RECURSIVE NatStr(_)
NatStr(n) == IF n < 10 THEN DigitStr[n + 1]
             ELSE NatStr(n \div 10) \o DigitStr[(n % 10) + 1]

Pow10(p) == CASE p = 0 -> 1 [] p = 1 -> 10 [] p = 2 -> 100

\* variant of lines 206-207: the digits beyond the precision cut off
FixedStrTruncated(v, p) ==
    LET n  == v \div Pow10(2 - p)
        ip == n \div Pow10(p)
        fp == n % Pow10(p)
    IN  CASE p = 0 -> NatStr(ip)
          [] p = 1 -> NatStr(ip) \o "." \o DigitStr[fp + 1]
          [] p = 2 -> NatStr(ip) \o "." \o DigitStr[(fp \div 10) + 1]
                                        \o DigitStr[(fp % 10) + 1]

\* stream << std::fixed << std::setprecision(p) << v/100, p in 0..2:
\* round to p decimals (a tie, exact in binary, goes to the even digit)
FixedStr(v, p) ==
    LET scale == Pow10(2 - p)
        q     == v \div scale
        rem   == v % scale
        n     == IF 2 * rem > scale THEN q + 1
                 ELSE IF 2 * rem < scale THEN q
                 ELSE IF q % 2 = 0 THEN q ELSE q + 1
        ip    == n \div Pow10(p)
        fp    == n % Pow10(p)
    IN  CASE p = 0 -> NatStr(ip)
          [] p = 1 -> NatStr(ip) \o "." \o DigitStr[fp + 1]
          [] p = 2 -> NatStr(ip) \o "." \o DigitStr[(fp \div 10) + 1]
                                        \o DigitStr[(fp % 10) + 1]

\* stream << v/100 in the default format (%g, 6 significant digits): at most
\* 4 integer digits and 2 decimals here, trailing zeros dropped
DefaultStr(v) ==
    IF v % 100 = 0 THEN NatStr(v \div 100)
    ELSE IF v % 10 = 0
         THEN NatStr(v \div 100) \o "." \o DigitStr[((v % 100) \div 10) + 1]
         ELSE NatStr(v \div 100) \o "." \o DigitStr[((v % 100) \div 10) + 1]
                                        \o DigitStr[(v % 10) + 1]

(***************************************************************************)
(* Initial state: the namespace globals as the header initialises them     *)
(* (the captions are the values ResetCmsDescriptors restores), no style,   *)
(* nothing drawn.                                                          *)
(***************************************************************************)
NoCall  == [iPosX |-> -1]
NoStack == [called |-> FALSE]
NoStats == [called |-> FALSE]
NoCanvas == [called |-> FALSE]
NoPaletteCall == [called |-> FALSE]

\* an operation that draws nothing and builds no stack
NoOutput ==
    /\ lumiCall' = NoCall
    /\ drawn' = <<>>
    /\ logos' = <<>>
    /\ padUpdates' = 0
    /\ stack' = NoStack
    /\ histContour' = 0
    /\ statsCall' = NoStats
    /\ canvas' = NoCanvas
    /\ paletteCall' = NoPaletteCall

\* the state after start-up: the text settings among `profiles', the
\* environment variable among `dirs'
InitWith(profiles, dirs) ==
    /\ cms_lumi = "Run 2, 138 fb^{#minus1}"
    /\ cms_energy = "13 TeV"
    /\ cmsText = "CMS"
    /\ extraText = "Preliminary"
    /\ additionalInfo = <<>>
    /\ useCmsLogo = ""
    /\ cmsTextFont = 61
    /\ additionalInfoFont = 42
    /\ lumiTextSize = 60
    /\ \E pr \in profiles :
          /\ cmsTextSize = pr.cmsTextSize
          /\ extraTextFont = pr.extraTextFont
          /\ lumiTextOffset = pr.lumiTextOffset
          /\ extraOverCmsTextSize = pr.extraOverCmsTextSize
    /\ cmsStyle = NullStyle
    /\ gROOT = [style |-> "Modern", force |-> FALSE]
    /\ liveStyles = 0
    /\ modernStyle = ModernStyle
    /\ usingPalette2D = <<>>
    /\ histContour = 0
    /\ statsCall = NoStats
    /\ canvas = NoCanvas
    /\ paletteCall = NoPaletteCall
    /\ envDir \in dirs
    /\ cerr = <<>>
    /\ lastOp = NoOp
    /\ privateSeen = FALSE
    /\ lumiCall = NoCall
    /\ drawn = <<>>
    /\ logos = <<>>
    /\ padUpdates = 0
    /\ stack = NoStack

\* the text settings as the header gives them
HeaderProfile ==
    [cmsTextSize |-> 75, extraTextFont |-> 52, lumiTextOffset |-> 20,
     extraOverCmsTextSize |-> 76]
\* the same globals as a caller may have assigned them before the session
OtherProfile ==
    [cmsTextSize |-> 50, extraTextFont |-> 42, lumiTextOffset |-> 0,
     extraOverCmsTextSize |-> 100]

Init == InitWith({HeaderProfile}, {NoEnv, "/style"})

(***************************************************************************)
(* setCMSStyle (force)                                                     *)
(***************************************************************************)
\* variant of line 45: the old object not deleted
LiveWithoutDelete(live, style) == live

\* line 45: if (cmsStyle!=nullptr) delete cmsStyle
LiveAfterDelete(live, style) == IF style # NullStyle THEN live - 1 ELSE live

\* variant of setCMSStyle: the captions are put back to their defaults and
\* the list of gradient colours is emptied with the style
setCMSStyleAndReset(force) ==
    /\ liveStyles' = LiveAfterDelete(liveStyles, cmsStyle) + 1
    /\ cmsStyle' = DefaultStyle
    /\ gROOT' = [style |-> "cmsStyle", force |-> force]
    /\ usingPalette2D' = <<>>
    /\ cms_lumi' = "Run 2, 138 fb^{#minus1}"
    /\ cms_energy' = "13 TeV"
    /\ cmsText' = "CMS"
    /\ extraText' = "Preliminary"
    /\ additionalInfo' = <<>>
    /\ useCmsLogo' = ""
    /\ cerr' = <<>>
    /\ lastOp' = Op("setCMSStyle", <<force, cmsStyle>>)
    /\ UNCHANGED <<modernStyle, fontVars, envDir, privateSeen>>
    /\ NoOutput

setCMSStyle(force) ==
    /\ liveStyles' = LiveAfterDelete(liveStyles, cmsStyle) + 1     \* line 47
    /\ cmsStyle' = DefaultStyle
    /\ gROOT' = [style |-> "cmsStyle", force |-> force]
    /\ UNCHANGED <<modernStyle, usingPalette2D>>
    /\ cerr' = <<>>
    /\ lastOp' = Op("setCMSStyle", <<force, cmsStyle>>)   \* and the object deleted
    /\ UNCHANGED <<captionVars, fontVars, envDir, privateSeen>>
    /\ NoOutput

(***************************************************************************)
(* ResetCmsDescriptors ()                                                  *)
(***************************************************************************)
\* variant of line 172: the list not cleared
KeptInfo(info) == info

\* line 172: additionalInfo.clear()
ClearedInfo(info) == <<>>

ResetCmsDescriptors ==
    /\ cms_lumi' = "Run 2, 138 fb^{#minus1}"
    /\ cms_energy' = "13 TeV"
    /\ cmsText' = "CMS"
    /\ extraText' = "Preliminary"
    /\ additionalInfo' = ClearedInfo(additionalInfo)
    /\ cerr' = <<>>
    /\ lastOp' = Op("ResetCmsDescriptors", <<>>)
    /\ UNCHANGED <<useCmsLogo, fontVars, styleVars, envDir, privateSeen>>
    /\ NoOutput

(***************************************************************************)
(* SetEnergy (energy, unit): energy in units of 1e-4                       *)
(***************************************************************************)
EnergyUnit == 10000                     \* 1.0
EnergyTol  == 10                        \* 0.001

\* variant of lines 181-182: <= in place of <
EnergyPrefixClosed(energy) ==
    IF Abs(energy - 13 * EnergyUnit) <= EnergyTol THEN "13 "
    ELSE IF Abs(energy - 136000) <= EnergyTol THEN "13.6 "
    ELSE "???? "

\* the number part of the caption, lines 181-186
EnergyPrefix(energy) ==
    IF Abs(energy - 13 * EnergyUnit) < EnergyTol THEN "13 "
    ELSE IF Abs(energy - 136000) < EnergyTol THEN "13.6 "
    ELSE "???? "

EnergySupported(energy) ==
    \/ Abs(energy - 13 * EnergyUnit) < EnergyTol
    \/ Abs(energy - 136000) < EnergyTol

SetEnergy(energy, unit) ==
    /\ cms_energy' = IF energy = 0 THEN unit ELSE EnergyPrefix(energy) \o unit
    /\ cerr' = IF energy # 0 /\ ~EnergySupported(energy) THEN <<ErrEnergy>> ELSE <<>>
    /\ lastOp' = Op("SetEnergy", <<energy, unit>>)
    /\ UNCHANGED <<cms_lumi, cmsText, extraText, additionalInfo, useCmsLogo,
                   fontVars, styleVars, envDir, privateSeen>>
    /\ NoOutput

(***************************************************************************)
(* SetLumi (lumi, unit, run, round_lumi): lumi in hundredths               *)
(***************************************************************************)
LumiCaption(lumi, unit, run, round_lumi) ==
    LET head == IF Len(run) > 0 THEN run ELSE ""
        num  == IF round_lumi >= 0 /\ round_lumi < 3
                THEN FixedStr(lumi, round_lumi) ELSE DefaultStr(lumi)
    IN  IF lumi >= 0
        THEN (IF Len(head) > 0 THEN head \o ", " ELSE head)
             \o num \o " " \o unit \o "^{#minus1}"
        ELSE head

SetLumi(lumi, unit, run, round_lumi) ==
    /\ cms_lumi' = LumiCaption(lumi, unit, run, round_lumi)
    /\ cerr' = <<>>
    /\ lastOp' = Op("SetLumi", <<lumi, unit, run, round_lumi>>)
    /\ UNCHANGED <<cms_energy, cmsText, extraText, additionalInfo, useCmsLogo,
                   fontVars, styleVars, envDir, privateSeen>>
    /\ NoOutput

(***************************************************************************)
(* SetCmsText (text, font, size)                                           *)
(***************************************************************************)
SetCmsText(text, font, size) ==
    /\ cmsText' = text
    /\ cmsTextFont' = IF font # 0 THEN font ELSE cmsTextFont
    /\ cmsTextSize' = IF size # 0 THEN size ELSE cmsTextSize
    /\ cerr' = <<>>
    /\ lastOp' = Op("SetCmsText", <<text, font, size>>)
    /\ UNCHANGED <<cms_lumi, cms_energy, extraText, additionalInfo, useCmsLogo,
                   extraTextFont, additionalInfoFont, lumiTextSize,
                   lumiTextOffset, extraOverCmsTextSize, styleVars, envDir,
                   privateSeen>>
    /\ NoOutput

(***************************************************************************)
(* SetCmsLogoFilename (filename)                                           *)
(***************************************************************************)
\* variant of lines 245-248: the file in the style directory not opened
ResolveLogoUnchecked(filename, dir) ==
    IF Len(filename) = 0 THEN ""
    ELSE IF Readable(filename) THEN filename
    ELSE IF dir # NoEnv THEN dir \o "/" \o filename
         ELSE ""

\* the value useCmsLogo ends with, lines 231-250
ResolveLogo(filename, dir) ==
    IF Len(filename) = 0 THEN ""
    ELSE IF Readable(filename) THEN filename
    ELSE IF dir # NoEnv /\ Readable(dir \o "/" \o filename)
         THEN dir \o "/" \o filename
         ELSE ""

\* line 252 is reached only in the last else branch
LogoErrors(filename, dir) ==
    IF Len(filename) # 0 /\ ~Readable(filename) /\ Len(ResolveLogo(filename, dir)) = 0
    THEN <<ErrLogoFile>> ELSE <<>>

SetCmsLogoFilename(filename) ==
    /\ useCmsLogo' = ResolveLogo(filename, envDir)
    /\ cerr' = LogoErrors(filename, envDir)
    /\ lastOp' = Op("SetCmsLogoFilename", <<filename>>)
    /\ UNCHANGED <<cms_lumi, cms_energy, cmsText, extraText, additionalInfo,
                   fontVars, styleVars, envDir, privateSeen>>
    /\ NoOutput

(***************************************************************************)
(* SetExtraText (text, font)                                               *)
(***************************************************************************)
\* lines 264-270
ResolveExtraText(text) ==
    CASE text = "p"   -> "Preliminary"
      [] text = "s"   -> "Simulation"
      [] text = "su"  -> "Supplementary"
      [] text = "wip" -> "Work in progress"
      [] text = "pw"  -> "Private work (CMS data)"
      [] OTHER        -> text

\* variants of line 274: the clearing dropped; equality in place of find
NeverSuppresses(resolved) == FALSE
SuppressesOnlyPhrase(resolved) == resolved = "Private work (CMS data)"

\* line 274
SuppressesCms(resolved) == Contains(resolved, "Private")

SetExtraText(text, font) ==
    LET resolved == ResolveExtraText(text) IN
    /\ extraText' = resolved
    /\ cmsText' = IF SuppressesCms(resolved) THEN "" ELSE cmsText
    /\ useCmsLogo' = IF SuppressesCms(resolved) THEN "" ELSE useCmsLogo
    /\ extraTextFont' = IF font # 0 THEN font ELSE extraTextFont
    /\ privateSeen' = (privateSeen \/ Contains(resolved, "Private"))
    /\ cerr' = <<>>
    /\ lastOp' = Op("SetExtraText", <<text, font>>)
    /\ UNCHANGED <<cms_lumi, cms_energy, additionalInfo, cmsTextFont, cmsTextSize,
                   additionalInfoFont, lumiTextSize, lumiTextOffset,
                   extraOverCmsTextSize, styleVars, envDir>>
    /\ NoOutput

(***************************************************************************)
(* AppendAdditionalInfo (text): additionalInfo.push_back(text)             *)
(***************************************************************************)
AppendAdditionalInfo(text) ==
    /\ Len(additionalInfo) < MaxInfo
    /\ additionalInfo' = Append(additionalInfo, text)
    /\ cerr' = <<>>
    /\ lastOp' = Op("AppendAdditionalInfo", <<text>>)
    /\ UNCHANGED <<cms_lumi, cms_energy, cmsText, extraText, useCmsLogo,
                   fontVars, styleVars, envDir, privateSeen>>
    /\ NoOutput

(***************************************************************************)
(* CMS_lumi (ppad, iPosX, scaleLumi)                                       *)
(*                                                                         *)
(* A pad is [l, r, t, b, W, H]: its margins (1e-5) and its pixel size      *)
(* W = GetWw()*GetWNDC(), H = GetWh()*GetHNDC() (100 pixels).              *)
(***************************************************************************)
MarginUnit == 100000                    \* 1.0 as a margin
NdcUnit    == 100000000                 \* 1.0 as a coordinate of a draw

\* line 418
OutOfFrame(iPosX) == (iPosX \div 10) = 0
\* variant of line 419: the max dropped
AlignXUnclamped(iPosX) == iPosX \div 10

\* line 419
AlignX(iPosX) == Max(iPosX \div 10, 1)
\* line 420
AlignY(iPosX) == IF iPosX = 0 THEN 1 ELSE 3
\* line 421
Align(iPosX) == 10 * AlignX(iPosX) + AlignY(iPosX)

\* line 429: 1 - t + lumiTextOffset * t
OutOfFramePosY(pad, offset) == NdcUnit - 1000 * pad.t + 10 * offset * pad.t

\* variant of lines 443-445: the tens digit in place of the units digit
PosXByTens(pad, iPosX) ==
    IF iPosX \div 10 <= 1 THEN 1000 * pad.l + 35 * (MarginUnit - pad.l - pad.r)
    ELSE IF iPosX \div 10 = 2 THEN 1000 * pad.l + 500 * (MarginUnit - pad.l - pad.r)
    ELSE NdcUnit - 1000 * pad.r - 35 * (MarginUnit - pad.l - pad.r)

\* lines 442-445, relPosX = 0.035
PosX(pad, iPosX) ==
    IF iPosX % 10 <= 1 THEN 1000 * pad.l + 35 * (MarginUnit - pad.l - pad.r)
    ELSE IF iPosX % 10 = 2 THEN 1000 * pad.l + 500 * (MarginUnit - pad.l - pad.r)
    ELSE IF iPosX % 10 = 3
         THEN NdcUnit - 1000 * pad.r - 35 * (MarginUnit - pad.l - pad.r)
         ELSE 0

\* line 447, relPosY = 0.035
PosY(pad) == NdcUnit - 1000 * pad.t - 35 * (MarginUnit - pad.t - pad.b)

\* variant of line 458: the rectangle scale dropped
ExtraDXUnscaled(pad, font, size) == 43 * font * size * (pad.t \div 100)

\* lines 457-459: 0.043 * (extraTextFont * t * cmsTextSize) * scale
ExtraDX(pad, font, size) ==
    IF pad.W > pad.H
    THEN (43 * font * size * (pad.t \div 100) * pad.H) \div pad.W
    ELSE 43 * font * size * (pad.t \div 100)

\* lines 481, 486: relExtraDY * cmsTextSize * t, relExtraDY = 1.2
ExtraDY(pad, size) == 12 * size * pad.t

\* variant of line 490: the step of the wordmark lines used for the info lines
InfoDYAsExtraDY(pad, over, size) == 12 * size * pad.t

\* line 490: relExtraDY * extraOverCmsTextSize * cmsTextSize * t / 2 + 0.02
InfoDY(pad, over, size) == (6 * over * size * pad.t) \div 100 + 2000000

\* line 490: the Y of additionalInfo[i], i from 0
InfoY(posY, pad, over, size, i) == posY - 400000 - InfoDY(pad, over, size) * (i + 1)

\* lines 472-473
LogoX(pad) == 1000 * pad.l + (45 * (MarginUnit - pad.l - pad.r) * pad.W) \div pad.H
LogoY(pad) == NdcUnit - 1000 * pad.t - 45 * (MarginUnit - pad.t - pad.b)

\* line 475: the box handed to addCmsLogo
LogoBox(pad, file) ==
    [file |-> file, x0 |-> LogoX(pad), y0 |-> LogoY(pad) - 15000000,
     x1 |-> LogoX(pad) + (15000000 * pad.H) \div pad.W, y1 |-> LogoY(pad)]

\* drawText (text, posX, posY, font, align, size), size in units of 1e-9;
\* role tells which statement of CMS_lumi issued the call
Draw(role, text, x, y, font, align, size) ==
    [role |-> role, text |-> text, x |-> x, y |-> y, font |-> font,
     align |-> align, size |-> size]

\* lines 433-438
LumiDraw(pad, scaleLumi) ==
    Draw("lumi",
         cms_lumi \o (IF cms_energy # "" THEN " (" \o cms_energy \o ")" ELSE ""),
         NdcUnit - 1000 * pad.r, OutOfFramePosY(pad, lumiTextOffset),
         42, 31, lumiTextSize * pad.t * scaleLumi)

CmsSize(pad)   == cmsTextSize * pad.t * 100
ExtraSize(pad) == extraOverCmsTextSize * cmsTextSize * pad.t

\* variant of lines 453, 468: the commented-out else taken, so that a logo
\* outside the frame suppresses the texts
OutDrawsElse(pad, iPosX) ==
    LET y  == OutOfFramePosY(pad, lumiTextOffset)
        l0 == 1000 * pad.l
    IN  IF Len(useCmsLogo) > 0 THEN <<>>
        ELSE IF Len(extraText) # 0
             THEN <<Draw("extra", extraText, l0, y, extraTextFont, Align(iPosX),
                         ExtraSize(pad))>>
             ELSE <<>>

\* lines 450-467
OutDraws(pad, iPosX) ==
    LET y  == OutOfFramePosY(pad, lumiTextOffset)
        l0 == 1000 * pad.l
        l1 == IF Len(cmsText) # 0
              THEN l0 + ExtraDX(pad, extraTextFont, cmsTextSize) ELSE l0
    IN  (IF Len(cmsText) # 0
         THEN <<Draw("cms", cmsText, l0, y, cmsTextFont, 11, CmsSize(pad))>>
         ELSE <<>>)
        \o
        (IF Len(extraText) # 0
         THEN <<Draw("extra", extraText, l1, y, extraTextFont, Align(iPosX),
                     ExtraSize(pad))>>
         ELSE <<>>)

OutWarnings ==
    (IF Len(useCmsLogo) > 0 THEN <<WarnLogoOut>> ELSE <<>>)
    \o (IF Len(additionalInfo) # 0 THEN <<WarnInfoOut>> ELSE <<>>)

\* whether the in-frame branch takes the logo instead of the text, line 471
LogoMode == Len(useCmsLogo) > 0

\* posX_ and posY_ when the loop of line 489 starts
InPosX(pad, iPosX) == IF LogoMode THEN LogoX(pad) ELSE PosX(pad, iPosX)
InPosY(pad) ==
    IF LogoMode THEN LogoY(pad)
    ELSE LET y1 == IF Len(cmsText) # 0
                   THEN PosY(pad) - ExtraDY(pad, cmsTextSize) ELSE PosY(pad)
         IN  IF Len(extraText) # 0 THEN y1 ELSE y1 + ExtraDY(pad, cmsTextSize)

\* lines 478-485
InTextDraws(pad, iPosX) ==
    LET y1 == IF Len(cmsText) # 0
              THEN PosY(pad) - ExtraDY(pad, cmsTextSize) ELSE PosY(pad)
    IN  (IF Len(cmsText) # 0
         THEN <<Draw("cms", cmsText, PosX(pad, iPosX), PosY(pad), cmsTextFont,
                     Align(iPosX), CmsSize(pad))>>
         ELSE <<>>)
        \o
        (IF Len(extraText) # 0
         THEN <<Draw("extra", extraText, PosX(pad, iPosX), y1, extraTextFont,
                     Align(iPosX), ExtraSize(pad))>>
         ELSE <<>>)

\* lines 489-492
InfoDraws(pad, iPosX) ==
    [i \in 1..Len(additionalInfo) |->
        Draw("info", additionalInfo[i], InPosX(pad, iPosX),
             InfoY(InPosY(pad), pad, extraOverCmsTextSize, cmsTextSize, i - 1),
             additionalInfoFont, Align(iPosX), ExtraSize(pad))]

\* variant of lines 477, 488: the loop of the info lines inside the else
InDrawsLogoAlone(pad, iPosX) ==
    IF LogoMode THEN <<>> ELSE InTextDraws(pad, iPosX) \o InfoDraws(pad, iPosX)

\* lines 470-493
InDraws(pad, iPosX) ==
    (IF LogoMode THEN <<>> ELSE InTextDraws(pad, iPosX)) \o InfoDraws(pad, iPosX)

\* what CMS_lumi draws and reports; `updates' counts the UpdatePad calls of the
\* caller
LumiEffects(pad, iPosX, scaleLumi, updates) ==
    /\ lumiCall' = [iPosX |-> iPosX, pad |-> pad, scaleLumi |-> scaleLumi,
                    outOfFrame |-> OutOfFrame(iPosX), alignX |-> AlignX(iPosX),
                    alignY |-> AlignY(iPosX), align |-> Align(iPosX),
                    cmsText |-> cmsText, extraText |-> extraText,
                    additionalInfo |-> additionalInfo, useCmsLogo |-> useCmsLogo,
                    cmsTextSize |-> cmsTextSize, extraTextFont |-> extraTextFont]
    /\ drawn' = <<LumiDraw(pad, scaleLumi)>>
                \o (IF OutOfFrame(iPosX) THEN OutDraws(pad, iPosX)
                    ELSE InDraws(pad, iPosX))
    /\ logos' = IF ~OutOfFrame(iPosX) /\ LogoMode
                THEN <<LogoBox(pad, useCmsLogo)>> ELSE <<>>
    \* addCmsLogo ends with UpdatePad(), CMS_lumi with UpdatePad(ppad)
    /\ padUpdates' = (IF ~OutOfFrame(iPosX) /\ LogoMode THEN 2 ELSE 1) + updates
    /\ cerr' = IF OutOfFrame(iPosX) THEN OutWarnings ELSE <<>>

CMS_lumi(pad, iPosX, scaleLumi) ==
    /\ LumiEffects(pad, iPosX, scaleLumi, 0)
    /\ lastOp' = Op("CMS_lumi", <<iPosX>>)
    /\ stack' = NoStack
    /\ histContour' = 0
    /\ statsCall' = NoStats
    /\ canvas' = NoCanvas
    /\ paletteCall' = NoPaletteCall
    /\ UNCHANGED <<captionVars, fontVars, styleVars, envDir, privateSeen>>

(***************************************************************************)
(* cmsCanvas (canvName, x_min, x_max, y_min, y_max, nameXaxis, nameYaxis,  *)
(* square, iPos, extraSpace, with_z_axis, scaleLumi, yTitOffset).          *)
(* Lengths in pixels are kept in units of 1e-3 pixel, title offsets in     *)
(* units of 1e-2, margins in units of 1e-5 (a margin that is no multiple   *)
(* of 1e-5 is cut to one).                                                 *)
(***************************************************************************)
CanvasH == 600
CanvasW(square) == IF square THEN 600 ELSE 800
\* setCMSStyle() of line 349 takes the default of the header for `force'
DefaultForce == TRUE

\* lines 363-368; -999 stands for an offset that is not given
YOffset(square, yTitOffset) ==
    IF yTitOffset < -99800 THEN (IF square THEN 120 ELSE 78) ELSE yTitOffset

\* lines 370-371: what is added to L
LeftAdjustment(y_offset) ==
    IF y_offset < 150 THEN y_offset * 500 - 60000
    ELSE IF y_offset < 180 THEN (y_offset - 140) * 350 + 25000
    ELSE 0

\* variant of line 384: the margin of the style that was current when the
\* call began is kept
CanvasTopOfStyle(H) == IF cmsStyle = NullStyle THEN 10000 ELSE 5000

\* line 384: T / H with T = 0.07 * H
CanvasTop(H) == (7 * H * 1000) \div H

\* lines 352-385: the margins of the canvas
CanvasMargins(square, extraSpace, with_z_axis, yTitOffset) ==
    LET H == CanvasH
        W == CanvasW(square)
        B == 125 * H                    \* 0.125 * H
        L == 145 * H + LeftAdjustment(YOffset(square, yTitOffset))
        R == 50 * H                     \* 0.05 * H
    IN  [l |-> (L * 100) \div W + extraSpace,
         r |-> IF with_z_axis THEN (B * 100) \div W + 3000 ELSE (R * 100) \div W,
         t |-> CanvasTop(H),
         b |-> (B * 100) \div H + 2000,
         W |-> W \div 100, H |-> H \div 100]

cmsCanvas(square, iPos, extraSpace, with_z_axis, scaleLumi, yTitOffset) ==
    LET args    == <<square, iPos, extraSpace, with_z_axis, scaleLumi, yTitOffset>>
        pad     == CanvasMargins(square, extraSpace, with_z_axis, yTitOffset)
        repeats == lastOp.name = "cmsCanvas" /\ lastOp.args = args
    IN
    \* line 349: if (cmsStyle==nullptr) setCMSStyle()
    /\ IF cmsStyle = NullStyle
       THEN /\ liveStyles' = LiveAfterDelete(liveStyles, cmsStyle) + 1
            /\ cmsStyle' = DefaultStyle
            /\ gROOT' = [style |-> "cmsStyle", force |-> DefaultForce]
       ELSE UNCHANGED <<liveStyles, cmsStyle, gROOT>>
    /\ canvas' = [called |-> TRUE, l |-> pad.l, r |-> pad.r, t |-> pad.t,
                  b |-> pad.b, W |-> pad.W, H |-> pad.H,
                  yTitleOffset |-> YOffset(square, yTitOffset),
                  xTitleOffset |-> 105,
                  createdStyle |-> cmsStyle = NullStyle]
    \* line 397 and the UpdatePad of line 399
    /\ LumiEffects(pad, iPos, scaleLumi, 1)
    \* the operation, and what the call before it gave if it was the same call
    /\ lastOp' = [name |-> "cmsCanvas", args |-> args, repeats |-> repeats,
                  before |-> IF repeats THEN [canvas |-> canvas, drawn |-> drawn]
                             ELSE [canvas |-> NoCanvas, drawn |-> <<>>]]
    /\ stack' = NoStack
    /\ histContour' = 0
    /\ statsCall' = NoStats
    /\ paletteCall' = NoPaletteCall
    /\ UNCHANGED <<captionVars, fontVars, modernStyle, usingPalette2D, envDir,
                   privateSeen>>

(***************************************************************************)
(* buildTHStack (histos, colors, stackopt, confs)                          *)
(*                                                                         *)
(* A histogram is the record of its line/fill/marker attributes.  confs is *)
(* the std::map as the sequence of its <<key, value>> pairs in key order,  *)
(* a value in tenths.                                                      *)
(***************************************************************************)
MaxHists == 4               \* series handed to buildTHStack at most

\* the curated qualitative sets, in the order the colour test lists them
P6  == <<601, 602, 603, 604, 605, 606>>
P8  == <<801, 802, 803, 804, 805, 806, 807, 808>>
P10 == <<1001, 1002, 1003, 1004, 1005, 1006, 1007, 1008, 1009, 1010>>

\* getPettroffColorSet (ncolors): the smallest family that holds ncolors
getPettroffColorSet(ncolors) ==
    IF ncolors <= Len(P6) THEN P6
    ELSE IF ncolors <= Len(P8) THEN P8
    ELSE P10

\* a histogram as the caller hands it over
NewHist ==
    [lineColor |-> 1, lineStyle |-> 1, lineWidth |-> 1, fillColor |-> 0,
     fillStyle |-> 0, markerColor |-> 1, markerSize |-> 10, markerStyle |-> 1]

\* Int_t(x): the conversion truncates towards zero (x in tenths)
IntOf(x) == IF x >= 0 THEN x \div 10 ELSE -((-x) \div 10)

\* what a read of colors[ihst] past the end of the vector may give
CrashRead     == -999999
GarbageColors == {0, 602}
OutcomesOfBadRead == GarbageColors \cup {CrashRead}

\* colors[ihst] of lines 897-899, ihst from 0: no bounds check
ColorRead(colors, ihst, bad) ==
    IF ihst < Len(colors) THEN colors[ihst + 1] ELSE bad

\* variant of the end of the if-chains: a key that matches nothing is taken
\* for a line width
UnknownKeyAsLineWidth(obj, key, value) == [obj EXCEPT !.lineWidth = IntOf(value)]

\* the if-chains of lines 506-515 and 897-906 end without an else: a key
\* that matches no branch does nothing
UnknownKey(obj, key, value) == obj

\* one pass of the if-chain of lines 897-906
ApplyConf(h, key, value, color) ==
    IF key \in {"SetLineColor", "LineColor"} THEN [h EXCEPT !.lineColor = color]
    ELSE IF key \in {"SetFillColor", "FillColor"} THEN [h EXCEPT !.fillColor = color]
    ELSE IF key \in {"SetMarkerColor", "MarkerColor"}
         THEN [h EXCEPT !.markerColor = color]
    ELSE IF key \in {"SetLineStyle", "LineStyle"}
         THEN [h EXCEPT !.lineStyle = IntOf(value + 5)]
    ELSE IF key \in {"SetLineWidth", "LineWidth"}
         THEN [h EXCEPT !.lineWidth = IntOf(value)]
    ELSE IF key \in {"SetFillStyle", "FillStyle"}
         THEN [h EXCEPT !.fillStyle = IntOf(value + 5)]
    ELSE IF key \in {"SetMarkerSize", "MarkerSize"}
         THEN [h EXCEPT !.markerSize = value]
    ELSE IF key \in {"SetMarkerStyle", "MarkerStyle"}
         THEN [h EXCEPT !.markerSize = value]
    ELSE UnknownKey(h, key, value)

RECURSIVE ApplyConfs(_, _, _, _)
\* the loop of line 896 from the k-th pair on
ApplyConfs(h, confs, k, color) ==
    IF k > Len(confs) THEN h
    ELSE ApplyConfs(ApplyConf(h, confs[k][1], confs[k][2], color), confs, k + 1, color)

IsColorKey(key) ==
    key \in {"SetLineColor", "LineColor", "SetFillColor", "FillColor",
             "SetMarkerColor", "MarkerColor"}
HasColorKey(confs) == \E k \in 1..Len(confs) : IsColorKey(confs[k][1])

\* whether the loop reads colors[ihst] past the end for some histogram
ReadsPastEnd(n, colors, confs) == HasColorKey(confs) /\ n > Len(colors)

\* bad[i] is what the read past the end gives for histogram i
buildTHStack(n, colors, stackopt, confs, bad) ==
    LET ncolors  == IF Len(colors) = 0 /\ n > 0 THEN n ELSE Len(colors)
        colorset == IF Len(colors) = 0 /\ n > 0
                    THEN getPettroffColorSet(ncolors) ELSE colors
        crashed  == \E i \in 1..n :
                        /\ HasColorKey(confs)
                        /\ i > Len(colors)
                        /\ bad[i] = CrashRead
        hists    == [i \in 1..n |->
                        ApplyConfs(NewHist, confs, 1, ColorRead(colors, i - 1, bad[i]))]
    IN
    /\ stack' = IF crashed
                THEN [called |-> TRUE, crashed |-> TRUE, n |-> n, colors |-> colors,
                      confs |-> confs, colorset |-> colorset, ncolors |-> ncolors]
                ELSE [called |-> TRUE, crashed |-> FALSE, n |-> n, colors |-> colors,
                      confs |-> confs, colorset |-> colorset, ncolors |-> ncolors,
                      option |-> IF Len(stackopt) = 0 THEN "STACK" ELSE stackopt,
                      hists |-> hists]
    /\ cerr' = <<>>
    /\ lastOp' = Op("buildTHStack", <<n>>)
    /\ lumiCall' = NoCall /\ drawn' = <<>> /\ logos' = <<>> /\ padUpdates' = 0
    /\ histContour' = 0
    /\ statsCall' = NoStats
    /\ canvas' = NoCanvas
    /\ paletteCall' = NoPaletteCall
    /\ UNCHANGED <<captionVars, fontVars, styleVars, envDir, privateSeen>>

(***************************************************************************)
(* cmsGrid (gridon)                                                        *)
(***************************************************************************)
ErrGridNoStyle    == "ERROR: You should set the CMS Style before calling cmsGrid"
ErrPaletteNoStyle == "ERROR: Not possible to set the CMS Palette if the CMS Style is not set!"

cmsGrid(gridon) ==
    /\ cmsStyle' = IF cmsStyle = NullStyle THEN cmsStyle
                   ELSE [cmsStyle EXCEPT !.padGridX = gridon, !.padGridY = gridon]
    /\ cerr' = IF cmsStyle = NullStyle THEN <<ErrGridNoStyle>> ELSE <<>>
    /\ lastOp' = Op("cmsGrid", <<gridon>>)
    /\ UNCHANGED <<captionVars, fontVars, gROOT, liveStyles, modernStyle,
                   usingPalette2D, envDir, privateSeen>>
    /\ NoOutput

(***************************************************************************)
(* SetCMSPalette ()                                                        *)
(***************************************************************************)
kViridis == 112                         \* EColorPalette::kViridis
PredefinedPalette(k) == [predefined |-> k, colors |-> <<>>]
ListPalette(colors)  == [predefined |-> 0, colors |-> colors]

SetCMSPalette ==
    /\ cmsStyle' = IF cmsStyle # NullStyle
                   THEN [cmsStyle EXCEPT !.palette = PredefinedPalette(kViridis)]
                   ELSE cmsStyle
    /\ cerr' = IF cmsStyle # NullStyle THEN <<>> ELSE <<ErrPaletteNoStyle>>
    /\ lastOp' = Op("SetCMSPalette", <<>>)
    /\ UNCHANGED <<captionVars, fontVars, gROOT, liveStyles, modernStyle,
                   usingPalette2D, envDir, privateSeen>>
    /\ NoOutput

(***************************************************************************)
(* CreateAlternativePalette (alpha); color_table is the index that         *)
(* TColor::CreateGradientColorTable returns                                *)
(***************************************************************************)
num_colors == 200
GradientColors(color_table) == [i \in 1..num_colors |-> color_table + i - 1]

\* variant of line 806: the list is not cleared
KeptPalette(palette) == palette

\* line 806: usingPalette2D.clear()
ClearedPalette(palette) == <<>>

\* lines 806-808
NewPalette(palette, color_table) ==
    ClearedPalette(palette) \o GradientColors(color_table)

CreateAlternativePalette(alpha, color_table) ==
    /\ usingPalette2D' = NewPalette(usingPalette2D, color_table)
    /\ cerr' = <<>>
    /\ lastOp' = Op("CreateAlternativePalette", <<alpha>>)
    /\ UNCHANGED <<captionVars, fontVars, cmsStyle, gROOT, liveStyles,
                   modernStyle, envDir, privateSeen>>
    /\ NoOutput

(***************************************************************************)
(* SetAlternative2DColor (hist, style, alpha): style names the TStyle      *)
(* handed in or is "nullptr"; hist tells whether a histogram is handed in  *)
(***************************************************************************)
\* gStyle: the style gROOT->SetStyle made current
gStyle == gROOT.style

\* variant of line 819: no style chosen when cmsStyle is null
PaletteTargetNoFallback(style) ==
    IF style = "nullptr"
    THEN (IF cmsStyle = NullStyle THEN "none" ELSE "cmsStyle")
    ELSE style

\* lines 818-821
PaletteTarget(style) ==
    IF style = "nullptr"
    THEN (IF cmsStyle = NullStyle THEN gStyle ELSE "cmsStyle")
    ELSE style

SetAlternative2DColor(hist, style, alpha, color_table) ==
    LET palette == IF Len(usingPalette2D) = 0
                   THEN NewPalette(usingPalette2D, color_table)
                   ELSE usingPalette2D
        target  == PaletteTarget(style)
    IN
    /\ usingPalette2D' = palette
    /\ cmsStyle' = IF target = "cmsStyle"
                   THEN [cmsStyle EXCEPT !.palette = ListPalette(palette)]
                   ELSE cmsStyle
    /\ modernStyle' = IF target = "Modern"
                      THEN [modernStyle EXCEPT !.palette = ListPalette(palette)]
                      ELSE modernStyle
    /\ histContour' = IF hist THEN Len(palette) ELSE 0
    /\ cerr' = <<>>
    /\ lastOp' = Op("SetAlternative2DColor", <<hist, style, alpha, color_table>>)
    /\ lumiCall' = NoCall /\ drawn' = <<>> /\ logos' = <<>> /\ padUpdates' = 0
    /\ stack' = NoStack
    /\ statsCall' = NoStats
    /\ canvas' = NoCanvas
    /\ paletteCall' = NoPaletteCall
    /\ UNCHANGED <<captionVars, fontVars, gROOT, liveStyles, envDir, privateSeen>>

(***************************************************************************)
(* setRootObjectProperties (obj, confs): confs as for buildTHStack         *)
(***************************************************************************)
\* one pass of the if-chain of lines 506-515
SetProperty(obj, key, value) ==
    IF key \in {"SetLineColor", "LineColor"}
    THEN [obj EXCEPT !.lineColor = IntOf(value + 5)]
    ELSE IF key \in {"SetLineStyle", "LineStyle"}
         THEN [obj EXCEPT !.lineStyle = IntOf(value + 5)]
    ELSE IF key \in {"SetLineWidth", "LineWidth"}
         THEN [obj EXCEPT !.lineWidth = IntOf(value)]
    ELSE IF key \in {"SetFillColor", "FillColor"}
         THEN [obj EXCEPT !.fillColor = IntOf(value + 5)]
    ELSE IF key \in {"SetFillStyle", "FillStyle"}
         THEN [obj EXCEPT !.fillStyle = IntOf(value + 5)]
    ELSE IF key \in {"SetMarkerColor", "MarkerColor"}
         THEN [obj EXCEPT !.markerColor = IntOf(value + 5)]
    ELSE IF key \in {"SetMarkerSize", "MarkerSize"}
         THEN [obj EXCEPT !.markerSize = value]
    ELSE IF key \in {"SetMarkerStyle", "MarkerStyle"}
         THEN [obj EXCEPT !.markerStyle = IntOf(value + 5)]
    ELSE UnknownKey(obj, key, value)

RECURSIVE SetProperties(_, _, _)
\* the loop of line 505 from the k-th pair on
SetProperties(obj, confs, k) ==
    IF k > Len(confs) THEN obj
    ELSE SetProperties(SetProperty(obj, confs[k][1], confs[k][2]), confs, k + 1)

setRootObjectProperties(obj, confs) == SetProperties(obj, confs, 1)

(***************************************************************************)
(* changeStatsBox.  A statistics box is the record of its NDC edges (units *)
(* of 1e-6), its text size (1e-3), the number of its lines and its line    *)
(* and fill attributes; positions and scales are handed in in units of     *)
(* 1e-6 and 1e-1.                                                          *)
(***************************************************************************)
BoxUnit == 1000000                      \* 1.0 in NDC
NoBox   == [name |-> "nullptr"]         \* GetPrimitive("stats") found nothing
ErrNoStatsBox == "ERROR: Trying to change the StatsBox when it has not been enabled"
ErrBadCorner  == "ERROR: Invalid code provided to position the statistics box"

\* variant of lines 664, 704: nothing written when the box is missing
ReportNothing == <<>>

\* lines 664, 704
ReportNoStatsBox == <<ErrNoStatsBox>>

\* lines 684-687: a position is set when it is above -998
EdgeAfter(old, pos) == IF pos > -998 * BoxUnit THEN pos ELSE old

\* changeStatsBox (TPaveStats*, x1pos, y1pos, x2pos, y2pos, confs), lines 676-688
changeStatsBoxOfPave(pstats, x1pos, y1pos, x2pos, y2pos, confs) ==
    LET withProps == setRootObjectProperties(pstats, confs)
    IN  [withProps EXCEPT !.x1 = EdgeAfter(@, x1pos), !.y1 = EdgeAfter(@, y1pos),
                          !.x2 = EdgeAfter(@, x2pos), !.y2 = EdgeAfter(@, y2pos)]

\* changeStatsBox (TPad*, x1pos, y1pos, x2pos, y2pos, confs), lines 651-673;
\* stbox is the primitive "stats" of the pad or NoBox
changeStatsBox(pcanv, stbox, x1pos, y1pos, x2pos, y2pos, confs) ==
    LET after == IF stbox = NoBox THEN NoBox
                 ELSE changeStatsBoxOfPave(stbox, x1pos, y1pos, x2pos, y2pos, confs)
    IN
    /\ statsCall' = [called |-> TRUE, variant |-> "edges", pad |-> pcanv,
                     before |-> stbox, after |-> after,
                     returned |-> IF stbox = NoBox THEN "nullptr" ELSE "stats",
                     confs |-> confs]
    /\ cerr' = IF stbox = NoBox THEN ReportNoStatsBox ELSE <<>>
    /\ padUpdates' = IF stbox = NoBox THEN 1 ELSE 2
    /\ lastOp' = Op("changeStatsBox", <<x1pos, y1pos, x2pos, y2pos>>)
    /\ lumiCall' = NoCall /\ drawn' = <<>> /\ logos' = <<>>
    /\ stack' = NoStack /\ histContour' = 0 /\ canvas' = NoCanvas
    /\ paletteCall' = NoPaletteCall
    /\ UNCHANGED <<captionVars, fontVars, styleVars, envDir, privateSeen>>

\* std::transform(..., ::tolower), line 711
UpperCase == "ABCDEFGHIJKLMNOPQRSTUVWXYZ"
LowerCase == "abcdefghijklmnopqrstuvwxyz"
ToLowerChar(c) ==
    IF \E i \in 1..Len(UpperCase) : SubSeq(UpperCase, i, i) = c
    THEN LET i == CHOOSE j \in 1..Len(UpperCase) : SubSeq(UpperCase, j, j) = c
         IN  SubSeq(LowerCase, i, i)
    ELSE c
\* variant of line 711: the token compared as it was given
AsGiven(str) == str

RECURSIVE ToLower(_)
ToLower(str) ==
    IF Len(str) = 0 THEN ""
    ELSE ToLower(SubSeq(str, 1, Len(str) - 1)) \o ToLowerChar(SubSeq(str, Len(str), Len(str)))

\* lines 715-716: 6*(GetTextSize()-0.025), 0 for a text size of 0
TextSizeTerm(stbox) ==
    IF stbox.textSize = 0 THEN 0 ELSE 6 * (stbox.textSize - 25) * 1000

\* lines 718-719
XSize(pcanv, xscale) == (MarginUnit - pcanv.r - pcanv.l) * xscale
YSize(pcanv, yscale) == (MarginUnit - pcanv.b - pcanv.t) * yscale

\* line 721, in units of 1e-2
YFactor(stbox) == 5 + 5 * stbox.lines

IsCorner(a) == a \in {"tr", "tl", "bl", "br"}

\* variant of line 736: the left edge of the top-left box put at the left
\* margin less the inset
CornerBoxOutside(pcanv, stbox, a, xscale, yscale) ==
    LET xsize == XSize(pcanv, xscale)
        ysize == YSize(pcanv, yscale)
        ts    == TextSizeTerm(stbox)
    IN  [x1 |-> 10 * pcanv.l - (xsize * 3) \div 100,
         y1 |-> BoxUnit - 10 * pcanv.t - (ysize * YFactor(stbox)) \div 100 - ts,
         x2 |-> 10 * pcanv.l + (xsize * 33) \div 100 + ts,
         y2 |-> BoxUnit - 10 * pcanv.t - (ysize * 3) \div 100]

\* lines 729-752: the edges for a corner token in lower case
CornerBox(pcanv, stbox, a, xscale, yscale) ==
    LET xsize  == XSize(pcanv, xscale)
        ysize  == YSize(pcanv, yscale)
        ts     == TextSizeTerm(stbox)
        left   == 10 * pcanv.l
        right  == BoxUnit - 10 * pcanv.r
        top    == BoxUnit - 10 * pcanv.t
        bottom == 10 * pcanv.b
        xin    == (xsize * 3) \div 100
        xout   == (xsize * 33) \div 100
        yin    == (ysize * 3) \div 100
        yout   == (ysize * YFactor(stbox)) \div 100
    IN  CASE a = "tr" -> [x1 |-> right - xout - ts, y1 |-> top - yout - ts,
                          x2 |-> right - xin,       y2 |-> top - yin]
          [] a = "tl" -> [x1 |-> left + xin,        y1 |-> top - yout - ts,
                          x2 |-> left + xout + ts,  y2 |-> top - yin]
          [] a = "bl" -> [x1 |-> left + xin,        y1 |-> bottom + yin,
                          x2 |-> left + xout + ts,  y2 |-> bottom + yout + ts]
          [] a = "br" -> [x1 |-> right - xout - ts, y1 |-> bottom + yin,
                          x2 |-> right - xin,       y2 |-> bottom + yout + ts]

\* changeStatsBox (TPad*, ipos_x1, xscale, yscale, confs), lines 691-762
changeStatsBoxAtCorner(pcanv, stbox, ipos_x1, xscale, yscale, confs) ==
    LET a     == ToLower(ipos_x1)
        edges == CornerBox(pcanv, stbox, a, xscale, yscale)
        after == IF stbox = NoBox THEN NoBox
                 ELSE IF ~IsCorner(a) THEN stbox
                 ELSE changeStatsBoxOfPave(stbox, edges.x1, edges.y1, edges.x2,
                                           edges.y2, confs)
    IN
    /\ statsCall' = [called |-> TRUE, variant |-> "corner", pad |-> pcanv,
                     before |-> stbox, after |-> after,
                     returned |-> IF stbox = NoBox THEN "nullptr" ELSE "stats",
                     confs |-> confs, xscale |-> xscale, yscale |-> yscale]
    /\ cerr' = IF stbox = NoBox THEN ReportNoStatsBox
               ELSE IF ~IsCorner(a) THEN <<ErrBadCorner>> ELSE <<>>
    /\ padUpdates' = IF stbox = NoBox \/ ~IsCorner(a) THEN 1 ELSE 2
    /\ lastOp' = Op("changeStatsBoxAtCorner", <<ipos_x1>>)
    /\ lumiCall' = NoCall /\ drawn' = <<>> /\ logos' = <<>>
    /\ stack' = NoStack /\ histContour' = 0 /\ canvas' = NoCanvas
    /\ paletteCall' = NoPaletteCall
    /\ UNCHANGED <<captionVars, fontVars, styleVars, envDir, privateSeen>>

(***************************************************************************)
(* UpdatePalettePosition (hist, canv, X1, X2, Y1, Y2, isNDC).  The palette *)
(* is the TPaletteAxis of the histogram, the record of its edges in user   *)
(* and in NDC coordinates; edges are in units of 1e-7, NaN is the value    *)
(* that stands for a quiet NaN; canv is a pad or NoPad.                    *)
(***************************************************************************)
PaletteUnit == 10000000                 \* 1.0
NaN   == -2147483647
NoPad == [name |-> "nullptr"]
isnan(x) == x = NaN

\* lines 846-849: the value an edge has after the block of line 840
DefaultX1(canv) == PaletteUnit - 95 * canv.r
DefaultX2(canv) == PaletteUnit - 70 * canv.r
DefaultY1(canv) == 100 * canv.b
DefaultY2(canv) == PaletteUnit - 100 * canv.t
WithDefault(canv, isNDC, given, default) ==
    IF canv # NoPad /\ isNDC /\ isnan(given) THEN default ELSE given

\* lines 856-859: if (isnan(X)) (palette->*vars[k])(X)
EdgeSet(old, x) == IF isnan(x) THEN x ELSE old

UpdatePalettePosition(palette, canv, X1, X2, Y1, Y2, isNDC) ==
    LET x1 == WithDefault(canv, isNDC, X1, IF canv = NoPad THEN NaN ELSE DefaultX1(canv))
        x2 == WithDefault(canv, isNDC, X2, IF canv = NoPad THEN NaN ELSE DefaultX2(canv))
        y1 == WithDefault(canv, isNDC, Y1, IF canv = NoPad THEN NaN ELSE DefaultY1(canv))
        y2 == WithDefault(canv, isNDC, Y2, IF canv = NoPad THEN NaN ELSE DefaultY2(canv))
        after == IF isNDC
                 THEN [palette EXCEPT !.X1NDC = EdgeSet(@, x1), !.X2NDC = EdgeSet(@, x2),
                                      !.Y1NDC = EdgeSet(@, y1), !.Y2NDC = EdgeSet(@, y2)]
                 ELSE [palette EXCEPT !.X1 = EdgeSet(@, x1), !.X2 = EdgeSet(@, x2),
                                      !.Y1 = EdgeSet(@, y1), !.Y2 = EdgeSet(@, y2)]
    IN
    /\ paletteCall' = [called |-> TRUE, canv |-> canv, isNDC |-> isNDC,
                       given |-> <<X1, X2, Y1, Y2>>,
                       before |-> palette, after |-> after]
    \* GetPalette, line 779
    /\ padUpdates' = 1
    /\ cerr' = <<>>
    /\ lastOp' = Op("UpdatePalettePosition", <<X1, X2, Y1, Y2, isNDC>>)
    /\ lumiCall' = NoCall /\ drawn' = <<>> /\ logos' = <<>>
    /\ stack' = NoStack /\ histContour' = 0 /\ statsCall' = NoStats
    /\ canvas' = NoCanvas
    /\ UNCHANGED <<captionVars, fontVars, styleVars, envDir, privateSeen>>

(***************************************************************************)
(* Inputs of the operations                                                *)
(***************************************************************************)
ExtraTexts  == {"p", "s", "su", "wip", "pw", "", "Private", "private work",
                "My Private plot"}
CmsTexts    == {"", "CMS"}
LogoFiles   == {"", "logo.png", "CMS-BW-Label.png", "missing.png"}
InfoTexts   == {"Doing our job"}

(***************************************************************************)
(* Spec: a session of caption and style calls                              *)
(***************************************************************************)
ApplyStyle      == \E force \in BOOLEAN : setCMSStyle(force)
SetSomeEnergy   == SetEnergy(136000, "TeV")
SetSomeLumi     == SetLumi(4500, "fb", "Run 3", 1)
SetAnyCmsText   == \E text \in CmsTexts : SetCmsText(text, 0, 0)
SetAnyLogo      == \E f \in LogoFiles : SetCmsLogoFilename(f)
SetAnyExtraText == \E text \in ExtraTexts : SetExtraText(text, 0)
AppendInfo      == \E text \in InfoTexts : AppendAdditionalInfo(text)

Next ==
    \/ ApplyStyle
    \/ ResetCmsDescriptors
    \/ SetSomeEnergy
    \/ SetSomeLumi
    \/ SetAnyCmsText
    \/ SetAnyLogo
    \/ SetAnyExtraText
    \/ AppendInfo

Spec == Init /\ [][Next]_vars

(***************************************************************************)
(* SpecEnergy: the same session with SetEnergy over many energies          *)
(***************************************************************************)
EnergyUnits == {"TeV", "GeV"}
\* 0, 13, 13.6, both sides of each tolerance, other energies, a negative one
Energies    == {0, 130000, 136000, 129991, 129990, 130009, 130010, 135991,
                135990, 136009, 136010, 70000, 140000, -130000, 1}

SetAnyEnergy    == \E e \in Energies, u \in EnergyUnits : SetEnergy(e, u)
SetPrivate      == SetExtraText("pw", 0)
SetLogoFile     == SetCmsLogoFilename("logo.png")

NextEnergy ==
    \/ ApplyStyle
    \/ ResetCmsDescriptors
    \/ SetAnyEnergy
    \/ SetSomeLumi
    \/ SetAnyCmsText
    \/ SetLogoFile
    \/ SetPrivate
    \/ AppendInfo

SpecEnergy == Init /\ [][NextEnergy]_vars

(***************************************************************************)
(* SpecLumi: captions are set, then CMS_lumi draws on a pad                *)
(***************************************************************************)
\* the pads cmsCanvas makes (square, wide) and a tall pad with the margins
\* of the style
Pads ==
    {[l |-> 14500, r |-> 5000, t |-> 7000, b |-> 14500, W |-> 6, H |-> 6],
     [l |-> 8250,  r |-> 3750, t |-> 7000, b |-> 14500, W |-> 8, H |-> 6],
     [l |-> 16000, r |-> 2000, t |-> 5000, b |-> 13000, W |-> 3, H |-> 6]}
PositionCodes == {0, 1, 2, 3, 11, 12, 13, 21, 22, 23, 31, 32, 33}
ScaleLumis    == {100}
LumiInfoTexts == {"Doing our job", "second line"}

InitLumi == InitWith({HeaderProfile, OtherProfile}, {NoEnv})

SetLumiCmsText   == \E text \in CmsTexts : SetCmsText(text, 0, 0)
SetLumiExtraText == \E text \in {"", "p", "pw"} : SetExtraText(text, 0)
SetLumiLogo      == \E f \in {"", "logo.png"} : SetCmsLogoFilename(f)
AppendLumiInfo   == \E text \in LumiInfoTexts : AppendAdditionalInfo(text)
DrawLumi ==
    \E pad \in Pads, iPosX \in PositionCodes, scaleLumi \in ScaleLumis :
        CMS_lumi(pad, iPosX, scaleLumi)

NextLumi ==
    \/ ResetCmsDescriptors
    \/ SetLumiCmsText
    \/ SetLumiExtraText
    \/ SetLumiLogo
    \/ AppendLumiInfo
    \/ DrawLumi

SpecLumi == InitLumi /\ [][NextLumi]_vars

(***************************************************************************)
(* SpecStack: stacks are built from up to MaxHists fresh histograms        *)
(***************************************************************************)
\* no list, the three colours of the stack test, a list of one colour
ColorLists == {<<>>, <<1006, 1001, 1007>>, <<2>>}
StackOpts  == {"", "HIST"}
\* the empty map, fill colour and style, a line colour with a marker style,
\* a key the code does not know
ConfMaps ==
    {<<>>,
     <<<<"FillColor", -10>>, <<"FillStyle", 10010>>>>,
     <<<<"LineColor", 10>>, <<"MarkerStyle", 204>>>>,
     <<<<"LineStyle", 26>>, <<"NoSuchKey", 30>>>>}

\* what the reads past the end may give, one outcome for each histogram
BadReads(n, colors, confs) ==
    {bad \in [1..n -> OutcomesOfBadRead \cup {0}] :
        \A i \in 1..n :
            (~HasColorKey(confs) \/ i <= Len(colors)) => bad[i] = 0}

BuildStack ==
    \E n \in 0..MaxHists, colors \in ColorLists, opt \in StackOpts, confs \in ConfMaps :
        \E bad \in BadReads(n, colors, confs) :
            buildTHStack(n, colors, opt, confs, bad)

NextStack ==
    \/ ApplyStyle
    \/ BuildStack

InitStack == InitWith({HeaderProfile}, {NoEnv})

SpecStack == InitStack /\ [][NextStack]_vars

(***************************************************************************)
(* SpecCaption: SetLumi over many values, units, run labels and precisions *)
(***************************************************************************)
\* hundredths: negative, zero, the values of the tests, values that round
\* up, down and with a carry, ties that a double holds exactly (x.5, x.25,
\* x.75)
Lumis      == {-100, 0, 4500, 13800, 5996, 1234, 1238, 250, 350, 25, 75, 99950}
LumiUnits  == {"fb", "pb"}
RunLabels  == {"", "Run 3"}
RoundLumis == {-1, 0, 1, 2, 3}

SetAnyLumi ==
    \E lumi \in Lumis, unit \in LumiUnits, run \in RunLabels, round_lumi \in RoundLumis :
        SetLumi(lumi, unit, run, round_lumi)

NextCaption ==
    \/ ResetCmsDescriptors
    \/ SetAnyLumi
    \/ SetSomeEnergy
    \/ SetPrivate

SpecCaption == Init /\ [][NextCaption]_vars

(***************************************************************************)
(* SpecStyle: the style is applied, switched and given palettes            *)
(***************************************************************************)
Alphas          == {100, 50}            \* 1e-2
GradientTables  == {924, 1124}
StyleArguments  == {"nullptr", "Modern"}

SetGrid         == \E gridon \in BOOLEAN : cmsGrid(gridon)
MakePalette     ==
    \E alpha \in Alphas, color_table \in GradientTables :
        CreateAlternativePalette(alpha, color_table)
SetAlternative  ==
    \E hist \in BOOLEAN, style \in StyleArguments, alpha \in Alphas,
       color_table \in GradientTables :
        SetAlternative2DColor(hist, style, alpha, color_table)

NextStyle ==
    \/ ApplyStyle
    \/ SetGrid
    \/ SetCMSPalette
    \/ MakePalette
    \/ SetAlternative
    \/ SetPrivate
    \/ ResetCmsDescriptors

SpecStyle == InitStack /\ [][NextStyle]_vars

(***************************************************************************)
(* SpecStats: statistics boxes are moved on pads                           *)
(***************************************************************************)
\* a box as ROOT draws it for a histogram: its place, the text size of the
\* style (0.025 with the CMS style, 0 without) or one the caller gave, its
\* lines
MaxLines == 2
StatTextSizes == {0, 10, 25, 60}
StatsBoxes ==
    {[name |-> "stats", x1 |-> 780000, y1 |-> 775000, x2 |-> 980000,
      y2 |-> 935000, textSize |-> ts, lines |-> n, lineColor |-> 1,
      lineStyle |-> 1, lineWidth |-> 1, fillColor |-> 0, fillStyle |-> 1001]
       : ts \in StatTextSizes, n \in {0, MaxLines}}
StatsPads   == {pad \in Pads : pad.W >= pad.H}
Corners     == {"tr", "tl", "bl", "br", "TL", "bR", "top", ""}
\* the scales and the map of a call: <<xscale, yscale, confs>>
ScalesAndConfs ==
    {<<10, 10, <<>>>>,
     <<5, 1, <<<<"FillColor", 6010>>, <<"LineWidth", 25>>>>>>,
     <<1, 5, <<<<"NoSuchKey", 30>>, <<"SetLineStyle", 26>>>>>>}
\* the positions of a call, -999 for one that is not given
NotGiven    == -999 * BoxUnit
Positions   ==
    {<<NotGiven, NotGiven, NotGiven, NotGiven>>,
     <<200000, 500000, 700000, 800000>>,
     <<NotGiven, 500000, NotGiven, 800000>>}

MoveStatsBox ==
    \E pcanv \in StatsPads, stbox \in StatsBoxes \cup {NoBox}, pos \in Positions,
       sc \in ScalesAndConfs :
        changeStatsBox(pcanv, stbox, pos[1], pos[2], pos[3], pos[4], sc[3])
MoveStatsBoxToCorner ==
    \E pcanv \in StatsPads, stbox \in StatsBoxes \cup {NoBox}, ipos_x1 \in Corners,
       sc \in ScalesAndConfs :
        changeStatsBoxAtCorner(pcanv, stbox, ipos_x1, sc[1], sc[2], sc[3])

NextStats ==
    \/ MoveStatsBox
    \/ MoveStatsBoxToCorner

SpecStats == InitStack /\ [][NextStats]_vars

(***************************************************************************)
(* SpecCanvas: canvases are made between caption calls                     *)
(***************************************************************************)
\* <<square, iPos, extraSpace, with_z_axis, scaleLumi, yTitOffset>>: the
\* defaults, and title offsets on both sides of 1.4, 1.5 and 1.8
CanvasArguments ==
    {<<TRUE, 11, 0, FALSE, 100, -99900>>,
     <<FALSE, 0, 0, FALSE, 100, -99900>>,
     <<FALSE, 22, 1000, FALSE, 100, 100>>,
     <<TRUE, 11, 0, FALSE, 100, 140>>,
     <<TRUE, 0, 1000, TRUE, 100, 141>>,
     <<FALSE, 33, 0, FALSE, 100, 149>>,
     <<TRUE, 12, 0, FALSE, 100, 150>>,
     <<FALSE, 11, 0, TRUE, 100, 179>>,
     <<TRUE, 11, 0, FALSE, 100, 180>>,
     <<FALSE, 11, 1000, FALSE, 100, 200>>}

MakeCanvas ==
    \E a \in CanvasArguments : cmsCanvas(a[1], a[2], a[3], a[4], a[5], a[6])

NextCanvas ==
    \/ MakeCanvas
    \/ ApplyStyle
    \/ ResetCmsDescriptors
    \/ SetLogoFile
    \/ SetPrivate
    \/ AppendInfo

SpecCanvas == InitStack /\ [][NextCanvas]_vars

(***************************************************************************)
(* SpecConfs: maps with keys the code knows and keys it does not, handed   *)
(* to buildTHStack and, through changeStatsBox, to setRootObjectProperties *)
(***************************************************************************)
\* maps in key order: unknown keys alone (one differs from a known key in
\* case only), known keys with an unknown one, the same known keys alone
KeyMaps ==
    {<<>>,
     <<<<"NoSuchKey", 30>>>>,
     <<<<"NoSuchKey", 30>>, <<"linecolor", 20>>>>,
     <<<<"FillColor", -10>>, <<"FillStyle", 10010>>>>,
     <<<<"FillColor", -10>>, <<"FillStyle", 10010>>, <<"NoSuchKey", 30>>>>,
     <<<<"LineStyle", 26>>, <<"LineWidth", 20>>, <<"Unknown", 70>>>>}

\* a colour for every series
FullColors == [i \in 1..MaxHists |-> 1000 + i]

BuildStackWithKeys ==
    \E n \in 0..MaxHists, opt \in StackOpts, confs \in KeyMaps :
        buildTHStack(n, FullColors, opt, confs, [i \in 1..n |-> 0])
MoveStatsBoxWithKeys ==
    \E pcanv \in StatsPads, stbox \in StatsBoxes, pos \in Positions,
       confs \in KeyMaps :
        changeStatsBox(pcanv, stbox, pos[1], pos[2], pos[3], pos[4], confs)

NextConfs ==
    \/ BuildStackWithKeys
    \/ MoveStatsBoxWithKeys

SpecConfs == InitStack /\ [][NextConfs]_vars

(***************************************************************************)
(* SpecPalette: the palette of a drawn 2D histogram is moved               *)
(***************************************************************************)
\* the palette as ROOT places it, and one that was moved before
Palettes ==
    {[X1 |-> 10050000, X2 |-> 10500000, Y1 |-> 0, Y2 |-> 10000000,
      X1NDC |-> 9050000, X2NDC |-> 9500000, Y1NDC |-> 1000000, Y2NDC |-> 9000000],
     [X1 |-> 10050000, X2 |-> 10500000, Y1 |-> 0, Y2 |-> 10000000,
      X1NDC |-> 8800000, X2NDC |-> 9100000, Y1NDC |-> 1450000, Y2NDC |-> 9300000]}
\* <<X1, X2, Y1, Y2>>: nothing given, all given, some given
PaletteEdges ==
    {<<NaN, NaN, NaN, NaN>>,
     <<8700000, 9000000, 2000000, 9000000>>,
     <<8700000, NaN, NaN, NaN>>,
     <<NaN, 9000000, NaN, 9000000>>,
     <<NaN, NaN, 2000000, NaN>>}
PalettePads == {pad \in Pads : pad.W >= pad.H} \cup {NoPad}

MovePalette ==
    \E palette \in Palettes, canv \in PalettePads, e \in PaletteEdges,
       isNDC \in BOOLEAN :
        UpdatePalettePosition(palette, canv, e[1], e[2], e[3], e[4], isNDC)

NextPalette ==
    \/ MovePalette
    \/ ApplyStyle

SpecPalette == InitStack /\ [][NextPalette]_vars

(***************************************************************************)
(* Claims                                                                  *)
(***************************************************************************)
IsOp(name) == lastOp.name = name

C2_ExtraTextResolved ==
    /\ [](IsOp("SetExtraText") =>
            LET text == lastOp.args[1] IN
            /\ text = "p"   => extraText = "Preliminary"
            /\ text = "s"   => extraText = "Simulation"
            /\ text = "su"  => extraText = "Supplementary"
            /\ text = "wip" => extraText = "Work in progress"
            /\ text = "pw"  => extraText = "Private work (CMS data)"
            /\ text \notin {"p", "s", "su", "wip", "pw"} => extraText = text)
    /\ [][lastOp'.name = "SetExtraText" =>
            IF Contains(extraText', "Private")
            THEN cmsText' = "" /\ useCmsLogo' = ""
            ELSE cmsText' = cmsText /\ useCmsLogo' = useCmsLogo]_vars

\* C2 witness: "pw" stored as the private-work phrase, both emptied
C2_Witness ==
    /\ lastOp = Op("SetExtraText", <<"pw", 0>>)
    /\ extraText = "Private work (CMS data)"
    /\ cmsText = "" /\ useCmsLogo = ""

\* C10: SetEnergy(e, unit) gives "13 "+unit within 0.001 of 13, "13.6 "+unit
\* within 0.001 of 13.6, unit alone for 0, and "???? "+unit with an error
\* report for every other e; it changes no other caption field.
C10_EnergyCaption ==
    /\ [](IsOp("SetEnergy") =>
            LET e      == lastOp.args[1]
                unit   == lastOp.args[2]
                near13 == e > 129990 /\ e < 130010
                near136 == e > 135990 /\ e < 136010
            IN
            /\ near13 => cms_energy = "13 " \o unit /\ cerr = <<>>
            /\ near136 => cms_energy = "13.6 " \o unit /\ cerr = <<>>
            /\ e = 0 => cms_energy = unit /\ cerr = <<>>
            /\ (e # 0 /\ ~near13 /\ ~near136)
                 => cms_energy = "???? " \o unit /\ cerr = <<ErrEnergy>>)
    /\ [][lastOp'.name = "SetEnergy" =>
            UNCHANGED <<cms_lumi, cmsText, extraText, additionalInfo, useCmsLogo>>]_vars

\* C10 witness: an unsupported energy just outside the tolerance of 13.6,
\* after a session that changed the other captions
C10_Witness ==
    /\ lastOp = Op("SetEnergy", <<136010, "GeV">>)
    /\ cms_energy = "???? GeV"
    /\ cerr = <<ErrEnergy>>
    /\ cmsText = "" /\ Len(additionalInfo) > 0

\* C3 as stated: with an empty colour list and n >= 1 series, a call whose
\* map names the fill colour gives series i the i-th colour of the curated
\* set chosen for n, so the n fill colours are distinct.
C3_AutoColorsFromCuratedSet ==
    (/\ stack.called
     /\ stack.n >= 1
     /\ Len(stack.colors) = 0
     /\ \E k \in 1..Len(stack.confs) : stack.confs[k][1] = "FillColor")
    => /\ ~stack.crashed
       /\ \A i \in 1..stack.n : stack.hists[i].fillColor = P6[i]
       /\ \A i, j \in 1..stack.n :
             i # j => stack.hists[i].fillColor # stack.hists[j].fillColor

\* what the claims about CMS_lumi read off the last call
Called     == IsOp("CMS_lumi")
DrawsOf(role) == SelectSeq(drawn, LAMBDA d : d.role = role)
TextDraws  == SubSeq(drawn, 2, Len(drawn))      \* all but the luminosity caption
InFrameText == Called /\ ~lumiCall.outOfFrame /\ lumiCall.useCmsLogo = ""
InFrameLogo == Called /\ ~lumiCall.outOfFrame /\ lumiCall.useCmsLogo # ""
FrameWidth  == MarginUnit - lumiCall.pad.l - lumiCall.pad.r
FrameHeight == MarginUnit - lumiCall.pad.t - lumiCall.pad.b

\* C4 as stated: in the frame with a logo configured, the logo is drawn and
\* the luminosity caption is the only text drawn.
C4_LogoModeDrawsNoText ==
    InFrameLogo =>
        /\ Len(logos) = 1
        /\ Len(drawn) = 1 /\ drawn[1].role = "lumi"

\* C4 amended: in the frame with a logo configured, the logo is drawn in
\* place of the wordmark and no text is drawn for the wordmark or the extra
\* text, but every additional info line is still drawn, in order: the texts
\* drawn are the luminosity caption and the additional info lines.
C4_LogoReplacesWordmarkAndExtraText ==
    InFrameLogo =>
        /\ Len(logos) = 1 /\ logos[1].file = lumiCall.useCmsLogo
        /\ DrawsOf("cms") = <<>> /\ DrawsOf("extra") = <<>>
        /\ drawn[1].role = "lumi"
        /\ Len(drawn) = 1 + Len(lumiCall.additionalInfo)
        /\ \A i \in 1..Len(lumiCall.additionalInfo) :
              /\ drawn[1 + i].role = "info"
              /\ drawn[1 + i].text = lumiCall.additionalInfo[i]

\* C4 witness: logo mode with wordmark, extra text and two info lines set
C4_Witness ==
    /\ InFrameLogo
    /\ lumiCall.cmsText # "" /\ lumiCall.extraText # ""
    /\ Len(lumiCall.additionalInfo) = 2
    /\ Len(logos) = 1 /\ Len(drawn) = 3

\* C5: for every valid position code, outOfFrame holds exactly for codes
\* below 10, alignX is max(code/10, 1) and lies in 1..3, alignY is 1 for
\* code 0 and 3 otherwise, align is 10*alignX + alignY, and every
\* out-of-frame code is left aligned; the texts placed by the code carry
\* that alignment.
C5_Decoding ==
    Called =>
        LET code == lumiCall.iPosX
            tens == code \div 10
        IN  /\ lumiCall.outOfFrame = (code < 10)
            /\ lumiCall.alignX = (IF tens > 1 THEN tens ELSE 1)
            /\ lumiCall.alignX \in {1, 2, 3}
            /\ lumiCall.alignY = (IF code = 0 THEN 1 ELSE 3)
            /\ lumiCall.align = 10 * lumiCall.alignX + lumiCall.alignY
            /\ (code < 10 => lumiCall.alignX = 1)
            /\ \A k \in 1..Len(drawn) :
                  (drawn[k].role \in {"extra", "info"}
                   \/ (drawn[k].role = "cms" /\ code >= 10))
                  => drawn[k].align = lumiCall.align

\* C5 witness: code 3 is out of frame, left aligned, and an extra text was
\* drawn with align 13
C5_Witness ==
    /\ Called /\ lumiCall.iPosX = 3
    /\ lumiCall.outOfFrame /\ lumiCall.alignX = 1 /\ lumiCall.alignY = 3
    /\ \E k \in 1..Len(drawn) : drawn[k].role = "extra" /\ drawn[k].align = 13

\* the three anchors of the spec, in units of 1e-8
LeftX   == 1000 * lumiCall.pad.l + 35 * FrameWidth
CenterX == 1000 * lumiCall.pad.l + 500 * FrameWidth
RightX  == NdcUnit - 1000 * lumiCall.pad.r - 35 * FrameWidth

\* C6 as stated: the wordmark and the extra text are drawn at the left
\* anchor when the tens digit of the code is 0 or 1, at the centre anchor
\* when it is 2, at the right anchor when it is 3.
C6_XByAlignmentZone ==
    Called =>
        \A k \in 1..Len(drawn) :
            drawn[k].role \in {"cms", "extra"} =>
                drawn[k].x = (CASE lumiCall.iPosX \div 10 <= 1 -> LeftX
                                [] lumiCall.iPosX \div 10 = 2  -> CenterX
                                [] lumiCall.iPosX \div 10 = 3  -> RightX)

\* C6 amended: for an in-frame code the wordmark and the extra text are
\* drawn at the anchor chosen by the units digit of the code (1: left,
\* 2: centre, 3: right) while the tens digit chooses only the alignment;
\* for an out-of-frame code the wordmark is drawn at X = l.
C6_XByPositionDigit ==
    Called =>
        \A k \in 1..Len(drawn) :
            /\ (drawn[k].role \in {"cms", "extra"} /\ lumiCall.iPosX >= 10)
               => drawn[k].x = (CASE lumiCall.iPosX % 10 = 1 -> LeftX
                                  [] lumiCall.iPosX % 10 = 2 -> CenterX
                                  [] lumiCall.iPosX % 10 = 3 -> RightX)
            /\ (drawn[k].role = "cms" /\ lumiCall.iPosX < 10)
               => drawn[k].x = 1000 * lumiCall.pad.l

\* C6 witness: code 12 draws the wordmark left aligned at the centre anchor
C6_Witness ==
    /\ Called /\ lumiCall.iPosX = 12
    /\ \E k \in 1..Len(drawn) :
          drawn[k].role = "cms" /\ drawn[k].x = CenterX /\ drawn[k].align = 13

\* the Y of line 447 and the step 1.2 * cmsTextSize * t, in units of 1e-8
TopY     == NdcUnit - 1000 * lumiCall.pad.t - 35 * FrameHeight
LineStep == 12 * lumiCall.cmsTextSize * lumiCall.pad.t
\* 0.6 * extraOverCmsTextSize * cmsTextSize * t + 0.02
InfoStep ==
    (6 * extraOverCmsTextSize * lumiCall.cmsTextSize * lumiCall.pad.t) \div 100
    + 2000000

\* C7 as stated: in-frame text mode draws its first line at
\* 1-t-0.035*(1-t-b) and every following line (wordmark, extra text, info
\* lines) exactly 1.2*cmsTextSize*t below the line before it.
C7_EvenLineSpacing ==
    InFrameText =>
        /\ Len(TextDraws) >= 1 => TextDraws[1].y = TopY
        /\ \A k \in 2..Len(TextDraws) : TextDraws[k].y = TextDraws[k - 1].y - LineStep

\* C7 amended: in-frame text mode draws the wordmark at Y0 = 1-t-0.035*(1-t-b)
\* and the extra text 1.2*cmsTextSize*t below Y0 (at Y0 without a wordmark);
\* info line i (from 0) is drawn at Yb - 0.004 - D*(i+1), D =
\* 0.6*extraOverCmsTextSize*cmsTextSize*t + 0.02, where Yb is the Y of the
\* extra text, or without extra text Y0 (with a wordmark) or
\* Y0 + 1.2*cmsTextSize*t (without one).
C7_LineLayout ==
    InFrameText =>
        LET hasCms   == lumiCall.cmsText # ""
            hasExtra == lumiCall.extraText # ""
            extraY   == IF hasCms THEN TopY - LineStep ELSE TopY
            baseY    == IF hasExtra THEN extraY
                        ELSE IF hasCms THEN TopY ELSE TopY + LineStep
            infos    == DrawsOf("info")
        IN  /\ \A k \in 1..Len(drawn) :
                  /\ drawn[k].role = "cms" => drawn[k].y = TopY
                  /\ drawn[k].role = "extra" => drawn[k].y = extraY
            /\ Len(DrawsOf("cms")) = (IF hasCms THEN 1 ELSE 0)
            /\ Len(DrawsOf("extra")) = (IF hasExtra THEN 1 ELSE 0)
            /\ Len(infos) = Len(lumiCall.additionalInfo)
            /\ \A i \in 1..Len(infos) :
                  /\ infos[i].text = lumiCall.additionalInfo[i]
                  /\ infos[i].y = baseY - 400000 - InfoStep * i

\* C7 witness: wordmark, extra text and two info lines drawn in the frame
C7_Witness ==
    /\ InFrameText
    /\ lumiCall.cmsText # "" /\ lumiCall.extraText # ""
    /\ Len(lumiCall.additionalInfo) = 2
    /\ Len(drawn) = 5
    /\ drawn[5].y = drawn[4].y - InfoStep

\* C8: for an out-of-frame code the wordmark and the extra text are drawn at
\* Y = 1 - t + lumiTextOffset*t; the extra text is drawn at
\* l + 0.043*extraTextFont*t*cmsTextSize*scale (scale = H/W if W > H, else 1)
\* when the wordmark is not empty and at l when it is, never left of the
\* wordmark, which is drawn at l.
C8_OutOfFrameLine ==
    (Called /\ lumiCall.outOfFrame) =>
        LET pad == lumiCall.pad
            y   == NdcUnit - 1000 * pad.t + 10 * lumiTextOffset * pad.t
            raw == 43 * lumiCall.extraTextFont * lumiCall.cmsTextSize * (pad.t \div 100)
            dx  == IF pad.W > pad.H THEN (raw * pad.H) \div pad.W ELSE raw
        IN  \A k \in 1..Len(drawn) :
                /\ drawn[k].role = "cms" =>
                      drawn[k].x = 1000 * pad.l /\ drawn[k].y = y
                /\ drawn[k].role = "extra" =>
                      /\ drawn[k].y = y
                      /\ drawn[k].x = (IF lumiCall.cmsText # ""
                                       THEN 1000 * pad.l + dx ELSE 1000 * pad.l)
                      /\ drawn[k].x >= 1000 * pad.l

\* C8 witness: wordmark and extra text out of the frame of a wide pad, the
\* extra text to the right of the wordmark
C8_Witness ==
    /\ Called /\ lumiCall.outOfFrame
    /\ lumiCall.pad.W > lumiCall.pad.H
    /\ Len(drawn) = 3
    /\ drawn[2].role = "cms" /\ drawn[3].role = "extra"
    /\ drawn[3].x > drawn[2].x /\ drawn[3].y = drawn[2].y

\* C9: for an out-of-frame code a configured logo and a non-empty list of
\* info lines each give a warning, no logo and no info line is drawn, the
\* luminosity caption, the non-empty wordmark and the non-empty extra text
\* are drawn, and the pad is refreshed.
C9_OutOfFrameDegrades ==
    (Called /\ lumiCall.outOfFrame) =>
        /\ lumiCall.useCmsLogo # "" <=> (\E k \in 1..Len(cerr) : cerr[k] = WarnLogoOut)
        /\ lumiCall.additionalInfo # <<>>
              <=> (\E k \in 1..Len(cerr) : cerr[k] = WarnInfoOut)
        /\ logos = <<>>
        /\ DrawsOf("info") = <<>>
        /\ Len(DrawsOf("lumi")) = 1
        /\ lumiCall.cmsText # "" =>
              \E k \in 1..Len(drawn) :
                  drawn[k].role = "cms" /\ drawn[k].text = lumiCall.cmsText
        /\ lumiCall.extraText # "" =>
              \E k \in 1..Len(drawn) :
                  drawn[k].role = "extra" /\ drawn[k].text = lumiCall.extraText
        /\ padUpdates >= 1

\* C9 witness: logo and info lines configured, both warnings, three texts
C9_Witness ==
    /\ Called /\ lumiCall.outOfFrame
    /\ lumiCall.useCmsLogo # "" /\ Len(lumiCall.additionalInfo) > 0
    /\ lumiCall.cmsText # "" /\ lumiCall.extraText # ""
    /\ cerr = <<WarnLogoOut, WarnInfoOut>>
    /\ Len(drawn) = 3 /\ logos = <<>> /\ padUpdates = 1

\* reading a printed number back: the digits before and after the point
DigitOf(ch) == CHOOSE d \in 0..9 : DigitStr[d + 1] = ch
IsDigits(str) ==
    \A i \in 1..Len(str) : \E d \in 0..9 : DigitStr[d + 1] = SubSeq(str, i, i)
RECURSIVE NatOf(_)
NatOf(str) ==
    IF Len(str) = 0 THEN 0
    ELSE 10 * NatOf(SubSeq(str, 1, Len(str) - 1))
         + DigitOf(SubSeq(str, Len(str), Len(str)))
PointAt(str) ==
    IF \E i \in 1..Len(str) : SubSeq(str, i, i) = "."
    THEN CHOOSE i \in 1..Len(str) : SubSeq(str, i, i) = "."
    ELSE Len(str) + 1
IntPart(str)  == SubSeq(str, 1, PointAt(str) - 1)
FracPart(str) == SubSeq(str, PointAt(str) + 1, Len(str))
WellFormed(str) ==
    /\ Len(IntPart(str)) >= 1 /\ IsDigits(IntPart(str)) /\ IsDigits(FracPart(str))
    /\ (Len(IntPart(str)) > 1 => SubSeq(str, 1, 1) # "0")
    /\ (PointAt(str) <= Len(str) => Len(FracPart(str)) >= 1)
\* the number printed with p decimals, in units of 10^-p
ValueOf(str) == NatOf(IntPart(str) \o FracPart(str))

\* C11: SetLumi(lumi, unit, run, round) leaves as caption the run label, then
\* for lumi >= 0 the separator ", " (iff the run label is not empty), the
\* value, a space, the unit and "^{#minus1}"; the value has exactly `round`
\* decimals and is lumi rounded to them when 0 <= round <= 2, and is lumi in
\* the shortest form otherwise; for lumi < 0 the caption is the run label.
C11_LumiCaption ==
    IsOp("SetLumi") =>
        LET lumi   == lastOp.args[1]
            unit   == lastOp.args[2]
            run    == lastOp.args[3]
            round  == lastOp.args[4]
            prefix == IF run # "" THEN run \o ", " ELSE ""
            suffix == " " \o unit \o "^{#minus1}"
            num    == SubSeq(cms_lumi, Len(prefix) + 1, Len(cms_lumi) - Len(suffix))
            unitOf == IF round = 0 THEN 100 ELSE IF round = 1 THEN 10 ELSE 1
        IN  IF lumi < 0 THEN cms_lumi = run
            ELSE /\ cms_lumi = prefix \o num \o suffix
                 /\ WellFormed(num)
                 /\ IF round \in 0..2
                    THEN /\ Len(FracPart(num)) = round
                         /\ (round = 0 => PointAt(num) > Len(num))
                         /\ 2 * Abs(ValueOf(num) * unitOf - lumi) <= unitOf
                    ELSE /\ Len(FracPart(num)) <= 2
                         /\ ValueOf(num) * Pow10(2 - Len(FracPart(num))) = lumi
                         /\ (Len(FracPart(num)) > 0
                               => SubSeq(num, Len(num), Len(num)) # "0")

\* C11 witness: the call of the canvas test, and a value rounded with a carry
C11_Witness ==
    /\ IsOp("SetLumi")
    /\ \/ (lastOp.args[1] = 4500 /\ lastOp.args[4] = 1
           /\ cms_lumi = "Run 3, 45.0 fb^{#minus1}")
       \/ (lastOp.args[1] = 5996 /\ lastOp.args[4] = 1
           /\ cms_lumi = "60.0 pb^{#minus1}")

\* C12: after SetCmsLogoFilename(f) the logo reference is f if f is readable
\* as given, else <CMSSTYLE_DIR>/f if the variable is defined and that file
\* is readable, else empty; an error is reported exactly when f is not empty
\* and the result is; in every state a non-empty logo reference names a
\* readable file.
C12_LogoResolved ==
    /\ IsOp("SetCmsLogoFilename") =>
          LET f     == lastOp.args[1]
              inDir == envDir \o "/" \o f
          IN  /\ useCmsLogo =
                    (IF f # "" /\ f \in ReadableFiles THEN f
                     ELSE IF f # "" /\ envDir # NoEnv /\ inDir \in ReadableFiles
                          THEN inDir
                          ELSE "")
              /\ (cerr # <<>>) <=> (f # "" /\ useCmsLogo = "")
              /\ cerr \in {<<>>, <<ErrLogoFile>>}
    /\ useCmsLogo # "" => useCmsLogo \in ReadableFiles

\* C12 witness: a file found only in the style directory
C12_Witness ==
    /\ IsOp("SetCmsLogoFilename")
    /\ lastOp.args[1] = "CMS-BW-Label.png"
    /\ envDir = "/style"
    /\ useCmsLogo = "/style/CMS-BW-Label.png"
    /\ cerr = <<>>

\* C13: from any state ResetCmsDescriptors leaves the luminosity caption at
\* "Run 2, 138 fb^{#minus1}", the energy caption at "13 TeV", the wordmark at
\* "CMS", the extra text at "Preliminary" and the info list empty, and
\* changes nothing else of the program; a second call right after the first
\* changes nothing at all.
C13_ResetRestoresDefaults ==
    /\ [](IsOp("ResetCmsDescriptors") =>
            /\ cms_lumi = "Run 2, 138 fb^{#minus1}"
            /\ cms_energy = "13 TeV"
            /\ cmsText = "CMS"
            /\ extraText = "Preliminary"
            /\ additionalInfo = <<>>)
    /\ [][lastOp'.name = "ResetCmsDescriptors" =>
            UNCHANGED <<useCmsLogo, fontVars, styleVars, envDir>>]_vars
    /\ [][~(IsOp("ResetCmsDescriptors") /\ lastOp'.name = "ResetCmsDescriptors")]_vars

\* C13 witness: a reset after the wordmark had been emptied by a "Private"
\* text and a logo set; the logo reference is kept
C13_Witness ==
    /\ IsOp("ResetCmsDescriptors")
    /\ privateSeen
    /\ useCmsLogo = "logo.png"
    /\ cmsText = "CMS" /\ extraText = "Preliminary" /\ additionalInfo = <<>>

\* C14: at most one style object made by setCMSStyle is live in any state,
\* and it is the one cmsStyle points to; after every setCMSStyle call the
\* style holds the fixed defaults (no pad grid on X and Y, no stat box, no
\* title box, font 42, the palette of a new style), whatever cmsGrid and
\* palette calls were made on the style before.
C14_OneStyleWithDefaults ==
    /\ liveStyles <= 1
    /\ liveStyles = (IF cmsStyle = NullStyle THEN 0 ELSE 1)
    /\ IsOp("setCMSStyle") =>
          /\ cmsStyle # NullStyle
          /\ ~cmsStyle.padGridX /\ ~cmsStyle.padGridY
          /\ cmsStyle.optStat = 0 /\ cmsStyle.optTitle = 0
          /\ cmsStyle.statFont = 42 /\ cmsStyle.titleFont = 42
          /\ cmsStyle.labelFont = 42
          /\ cmsStyle.palette = [predefined |-> 0, colors |-> <<>>]
          /\ gROOT.style = "cmsStyle"

\* C14 witness: setCMSStyle replaced a style whose grid had been switched on
\* and which had been given a palette; the new one has the defaults
C14_Witness ==
    /\ IsOp("setCMSStyle")
    /\ lastOp.args[2] # NullStyle
    /\ lastOp.args[2].padGridX
    /\ lastOp.args[2].palette # [predefined |-> 0, colors |-> <<>>]
    /\ liveStyles = 1
    /\ ~cmsStyle.padGridX
    /\ cmsStyle.palette = [predefined |-> 0, colors |-> <<>>]

\* a palette is asked for with no style argument while cmsStyle is null
\* (neither operation makes a style, so it is null before the call as well)
C15_PaletteCall(op) ==
    /\ op.name \in {"SetCMSPalette", "SetAlternative2DColor"}
    /\ (op.name = "SetAlternative2DColor" => op.args[2] = "nullptr")
    /\ cmsStyle = NullStyle

\* C15 as stated: a palette asked for while cmsStyle is null, through
\* SetCMSPalette or SetAlternative2DColor without a style argument, is
\* reported as an error and no palette is installed on any style.
C15_PaletteNeedsStyle ==
    [][C15_PaletteCall(lastOp') =>
          /\ cerr' # <<>>
          /\ UNCHANGED <<cmsStyle, modernStyle>>]_vars

\* C15 amended: while cmsStyle is null, SetCMSPalette reports an error and
\* installs no palette on any style; SetAlternative2DColor without a style
\* argument reports nothing and installs the gradient palette on the style
\* that is current in the session (gStyle).
C15_PaletteFallsBackToCurrentStyle ==
    [][C15_PaletteCall(lastOp') =>
          IF lastOp'.name = "SetCMSPalette"
          THEN /\ cerr' = <<ErrPaletteNoStyle>>
               /\ UNCHANGED <<cmsStyle, modernStyle, usingPalette2D>>
          ELSE /\ cerr' = <<>>
               /\ gROOT.style = "Modern"
               /\ Len(usingPalette2D') = 200
               /\ modernStyle'.palette = [predefined |-> 0, colors |-> usingPalette2D']
               /\ UNCHANGED cmsStyle]_vars

\* C15 witness: SetAlternative2DColor without a style argument and without a
\* cmsStyle put its palette on the current style and said nothing
C15_Witness ==
    /\ IsOp("SetAlternative2DColor")
    /\ lastOp.args[2] = "nullptr"
    /\ cmsStyle = NullStyle
    /\ modernStyle.palette.colors = usingPalette2D
    /\ Len(usingPalette2D) = 200
    /\ cerr = <<>>

\* what the claims about changeStatsBox read off the last call
StatsCalled  == statsCall.called
BoxMissing   == StatsCalled /\ statsCall.before = NoBox
CornerCalled == StatsCalled /\ statsCall.variant = "corner" /\ statsCall.before # NoBox
EdgesOf(box) == <<box.x1, box.y1, box.x2, box.y2>>

\* C16: both changeStatsBox variants that take a pad, when the pad has no
\* primitive "stats", report an error, return null and change no coordinate
\* and no attribute of any object.
C16_MissingBoxIsReported ==
    /\ [](BoxMissing =>
            /\ cerr = <<ErrNoStatsBox>>
            /\ statsCall.returned = "nullptr"
            /\ statsCall.after = NoBox)
    /\ [][(statsCall'.called /\ statsCall'.before = NoBox) =>
            UNCHANGED <<captionVars, fontVars, styleVars>>]_vars

\* C16 witness: the corner variant with a good token and a map of attributes
\* on a pad without a box
C16_Witness ==
    /\ BoxMissing
    /\ statsCall.variant = "corner"
    /\ lastOp.args[1] = "tl"
    /\ statsCall.confs # <<>>
    /\ statsCall.returned = "nullptr"
    /\ cerr = <<ErrNoStatsBox>>

\* the corner a token names, whatever the case of its letters
CornerNamed(token) ==
    CASE token \in {"tr", "tR", "Tr", "TR"} -> "tr"
      [] token \in {"tl", "tL", "Tl", "TL"} -> "tl"
      [] token \in {"bl", "bL", "Bl", "BL"} -> "bl"
      [] token \in {"br", "bR", "Br", "BR"} -> "br"
      [] OTHER -> "none"

\* C17: the corner variant compares the token with tr, tl, bl, br without
\* regard to case; for any other token it reports an error and leaves the
\* four edges and every attribute of the box as they were, the map
\* notwithstanding; for a token it knows it sets the four edges of that
\* corner.
C17_CornerTokens ==
    CornerCalled =>
        LET corner == CornerNamed(lastOp.args[1])
        IN  IF corner = "none"
            THEN /\ cerr = <<ErrBadCorner>>
                 /\ statsCall.after = statsCall.before
                 /\ statsCall.returned = "stats"
            ELSE /\ cerr = <<>>
                 /\ statsCall.returned = "stats"
                 /\ LET e == CornerBox(statsCall.pad, statsCall.before, corner,
                                       statsCall.xscale, statsCall.yscale)
                    IN  EdgesOf(statsCall.after) = <<e.x1, e.y1, e.x2, e.y2>>
                 /\ (corner \in {"tr", "tl"}
                       => statsCall.after.y2 > statsCall.pad.b * 10 + 500000)
                 /\ (corner \in {"tl", "bl"}
                       => statsCall.after.x1 < 500000)

\* C17 witness: "TL" moves the box to the top left; the map is applied
C17_Witness ==
    /\ CornerCalled
    /\ lastOp.args[1] = "TL"
    /\ cerr = <<>>
    /\ EdgesOf(statsCall.after) # EdgesOf(statsCall.before)
    /\ statsCall.after.fillColor = 601
    /\ statsCall.after.x1 < 500000 /\ statsCall.after.y2 > 500000

\* the top-left quadrant of the frame, in units of 1e-6
QuadLeft   == 10 * statsCall.pad.l
QuadRight  == 10 * statsCall.pad.l
              + 5 * (MarginUnit - statsCall.pad.l - statsCall.pad.r)
QuadTop    == BoxUnit - 10 * statsCall.pad.t
QuadBottom == BoxUnit - 10 * statsCall.pad.t
              - 5 * (MarginUnit - statsCall.pad.t - statsCall.pad.b)
InTopLeftQuadrant(box) ==
    /\ QuadLeft <= box.x1 /\ box.x1 < box.x2 /\ box.x2 <= QuadRight
    /\ QuadBottom <= box.y1 /\ box.y1 < box.y2 /\ box.y2 <= QuadTop
TopLeftNoLines ==
    /\ CornerCalled
    /\ CornerNamed(lastOp.args[1]) = "tl"
    /\ statsCall.before.lines = 0
    /\ statsCall.xscale \in 1..10 /\ statsCall.yscale \in 1..10

\* C18 as stated: for corner "tl", a box without lines and scales in (0,1]
\* the box lies in the top-left quadrant of the frame:
\* l <= x1 < x2 <= l + (1-l-r)/2 and 1-t-(1-t-b)/2 <= y1 < y2 <= 1-t.
C18_TopLeftInQuadrant ==
    TopLeftNoLines => InTopLeftQuadrant(statsCall.after)

\* C18 amended: for corner "tl", a box without lines and scales in (0,1] the
\* edges are x1 = l + 0.03*xsize, x2 = l + 0.33*xsize + ts,
\* y1 = 1-t - 0.05*ysize - ts, y2 = 1-t - 0.03*ysize, with xsize =
\* (1-l-r)*xscale, ysize = (1-t-b)*yscale and ts = 6*(text size - 0.025), or
\* 0 for a text size of 0; the box lies in the top-left quadrant when ts = 0
\* (text size 0 or 0.025).
C18_TopLeftEdges ==
    TopLeftNoLines =>
        LET pad   == statsCall.pad
            size  == statsCall.before.textSize
            ts    == IF size = 0 THEN 0 ELSE 6000 * (size - 25)
            xsize == (MarginUnit - pad.l - pad.r) * statsCall.xscale
            ysize == (MarginUnit - pad.t - pad.b) * statsCall.yscale
        IN  /\ statsCall.after.x1 * 100 = 1000 * pad.l + 3 * xsize
            /\ statsCall.after.x2 * 100 = 1000 * pad.l + 33 * xsize + 100 * ts
            /\ statsCall.after.y1 * 100 = 100 * BoxUnit - 1000 * pad.t - 5 * ysize - 100 * ts
            /\ statsCall.after.y2 * 100 = 100 * BoxUnit - 1000 * pad.t - 3 * ysize
            /\ (ts = 0 => InTopLeftQuadrant(statsCall.after))

\* C18 witness: the call of the canvas test, a box with the text size of the
\* CMS style put to the top left at full scale
C18_Witness ==
    /\ TopLeftNoLines
    /\ lastOp.args[1] = "tl"
    /\ statsCall.before.textSize = 25
    /\ statsCall.xscale = 10 /\ statsCall.yscale = 10
    /\ InTopLeftQuadrant(statsCall.after)

\* C19: a cmsCanvas call that follows a cmsCanvas call with the same
\* arguments, with no other call in between, gives the same four margins and
\* the same texts at the same anchors with the same alignments, also when the
\* first of the two calls had to make the style.
C19_CanvasRepeats ==
    (IsOp("cmsCanvas") /\ lastOp.repeats) =>
        LET first == lastOp.before
        IN  /\ first.canvas.called
            /\ <<canvas.l, canvas.r, canvas.t, canvas.b>>
                 = <<first.canvas.l, first.canvas.r, first.canvas.t, first.canvas.b>>
            /\ Len(drawn) = Len(first.drawn)
            /\ \A k \in 1..Len(drawn) :
                  /\ drawn[k].x = first.drawn[k].x
                  /\ drawn[k].y = first.drawn[k].y
                  /\ drawn[k].align = first.drawn[k].align
                  /\ drawn[k].text = first.drawn[k].text

\* C19 witness: the second of two equal calls, the first of which made the
\* style
C19_Witness ==
    /\ IsOp("cmsCanvas") /\ lastOp.repeats
    /\ lastOp.before.canvas.createdStyle
    /\ ~canvas.createdStyle
    /\ Len(drawn) >= 3
    /\ drawn = lastOp.before.drawn

\* C20 as stated: for every Y-axis title offset above 1.4 that the caller
\* gives, the left margin is larger than 0.145*H/W + extraSpace.
C20_OffsetWidensLeftMargin ==
    (IsOp("cmsCanvas") /\ lastOp.args[6] > 140) =>
        canvas.l > (145 * 600 * 100) \div (canvas.W * 100) + lastOp.args[3]

\* the list is a run of consecutive color indices
C21_Consecutive(palette) ==
    \A i \in 1..Len(palette) : palette[i] = palette[1] + i - 1

\* C21: usingPalette2D is always empty or a list of exactly 200 consecutive
\* color indices; CreateAlternativePalette replaces the list (200 entries
\* after it, whatever was there); SetAlternative2DColor fills the list only
\* when it is empty and otherwise leaves it as it was, whatever alpha it is
\* given.
C21_PaletteCache ==
    /\ [](/\ Len(usingPalette2D) \in {0, num_colors}
          /\ C21_Consecutive(usingPalette2D))
    /\ [][lastOp'.name = "CreateAlternativePalette" =>
             Len(usingPalette2D') = num_colors]_vars
    /\ [][lastOp'.name = "SetAlternative2DColor" =>
             IF usingPalette2D = <<>>
             THEN /\ Len(usingPalette2D') = num_colors
                  /\ usingPalette2D'[1] = lastOp'.args[4]
             ELSE usingPalette2D' = usingPalette2D]_vars

\* C21 witness: SetAlternative2DColor, with an alpha of 0.5, found a list
\* that is not the one its own call would have made, and used it
C21_Witness ==
    /\ IsOp("SetAlternative2DColor")
    /\ lastOp.args[3] = 50
    /\ Len(usingPalette2D) = num_colors
    /\ usingPalette2D[1] # lastOp.args[4]
    /\ histContour = num_colors

\* what the claims about the override map read off the last buildTHStack
StackBuilt == stack.called /\ ~stack.crashed

\* C22 as stated: for every series of a stack and every key LineStyle,
\* FillStyle or MarkerStyle of the map (with or without "Set"), the style
\* attribute of that name is the value rounded to the nearest integer, as
\* setRootObjectProperties sets it, and the marker size, which only a
\* MarkerSize key may set, is as setRootObjectProperties leaves it.
C22_StyleKeysAsSetRootObjectProperties ==
    StackBuilt =>
        \A i \in 1..stack.n :
            LET h   == stack.hists[i]
                ref == setRootObjectProperties(NewHist, stack.confs)
            IN  /\ h.lineStyle = ref.lineStyle
                /\ h.fillStyle = ref.fillStyle
                /\ h.markerStyle = ref.markerStyle
                /\ h.markerSize = ref.markerSize
                /\ h.lineWidth = ref.lineWidth

\* the keys that the if-chains name
RecognizedKeys ==
    {"SetLineColor", "LineColor", "SetLineStyle", "LineStyle", "SetLineWidth",
     "LineWidth", "SetFillColor", "FillColor", "SetFillStyle", "FillStyle",
     "SetMarkerColor", "MarkerColor", "SetMarkerSize", "MarkerSize",
     "SetMarkerStyle", "MarkerStyle"}
KnownPairs(confs) == SelectSeq(confs, LAMBDA pair : pair[1] \in RecognizedKeys)
LineAndFill(obj) ==
    <<obj.lineColor, obj.lineStyle, obj.lineWidth, obj.fillColor, obj.fillStyle>>

\* C23: after buildTHStack every series is what the recognized pairs of the
\* map alone make of it (the series as it was handed in when there is none),
\* and after changeStatsBox the line and fill attributes of the box are what
\* setRootObjectProperties makes of them with the recognized pairs alone;
\* neither call reports an error for a key it does not know.
C23_UnknownKeysIgnored ==
    /\ StackBuilt =>
          /\ cerr = <<>>
          /\ \A i \in 1..stack.n :
                /\ stack.hists[i]
                     = ApplyConfs(NewHist, KnownPairs(stack.confs), 1, stack.colors[i])
                /\ KnownPairs(stack.confs) = <<>> => stack.hists[i] = NewHist
    /\ (StatsCalled /\ ~BoxMissing) =>
          /\ cerr = <<>>
          /\ LineAndFill(statsCall.after)
               = LineAndFill(setRootObjectProperties(statsCall.before,
                                                     KnownPairs(statsCall.confs)))
          /\ KnownPairs(statsCall.confs) = <<>>
                => LineAndFill(statsCall.after) = LineAndFill(statsCall.before)

\* C23 witness: a stack of two or more series built with a map of two known
\* keys and an unknown one; the known keys took effect
C23_Witness ==
    /\ StackBuilt /\ stack.n >= 2
    /\ Len(stack.confs) = 3 /\ Len(KnownPairs(stack.confs)) = 2
    /\ stack.hists[2].fillColor = stack.colors[2]
    /\ stack.hists[2].fillStyle = 1001
    /\ stack.hists[2].lineWidth = NewHist.lineWidth

\* the edges of a palette in the coordinates the call works in
C24_Edges(palette, isNDC) ==
    IF isNDC THEN <<palette.X1NDC, palette.X2NDC, palette.Y1NDC, palette.Y2NDC>>
    ELSE <<palette.X1, palette.X2, palette.Y1, palette.Y2>>

\* C24 as stated: after UpdatePalettePosition every edge for which a value
\* (not NaN) was given is at that value; with a pad and NDC coordinates
\* every edge that was not given is at its default (X1 = 1 - 0.95*r,
\* X2 = 1 - 0.70*r, Y1 = b, Y2 = 1 - t); an edge that was not given and has
\* no default is as it was.
C24_PaletteEdges ==
    paletteCall.called =>
        LET canv    == paletteCall.canv
            isNDC   == paletteCall.isNDC
            before  == C24_Edges(paletteCall.before, isNDC)
            after   == C24_Edges(paletteCall.after, isNDC)
            default == IF canv = NoPad THEN <<NaN, NaN, NaN, NaN>>
                       ELSE <<DefaultX1(canv), DefaultX2(canv), DefaultY1(canv),
                              DefaultY2(canv)>>
        IN  \A k \in 1..4 :
                IF ~isnan(paletteCall.given[k]) THEN after[k] = paletteCall.given[k]
                ELSE IF canv # NoPad /\ isNDC THEN after[k] = default[k]
                ELSE after[k] = before[k]

\* C25 as stated: buildTHStack never reads the colour list past its end:
\* whenever the map holds a colour key, every series i has an element i in
\* the colour set in use (the caller's list, or the curated set when that
\* list is empty), and the colour the series gets is that element.
C25_ColorsReadInBounds ==
    (stack.called /\ HasColorKey(stack.confs)) =>
        /\ ~stack.crashed
        /\ \A i \in 1..stack.n :
              /\ i <= Len(stack.colorset)
              /\ \A k \in 1..Len(stack.confs) :
                    LET key == stack.confs[k][1]
                        h   == stack.hists[i]
                    IN  /\ key \in {"SetLineColor", "LineColor"}
                            => h.lineColor = stack.colorset[i]
                        /\ key \in {"SetFillColor", "FillColor"}
                            => h.fillColor = stack.colorset[i]
                        /\ key \in {"SetMarkerColor", "MarkerColor"}
                            => h.markerColor = stack.colorset[i]

\* C26 as stated: for a corner token the code knows, positive scales, any
\* number of lines and any text size of the box that is not negative, the
\* box that symbolic-corner changeStatsBox sets has x1 < x2 and y1 < y2.
C26_CornerBoxWellFormed ==
    (/\ CornerCalled
     /\ IsCorner(ToLower(lastOp.args[1]))
     /\ statsCall.xscale > 0 /\ statsCall.yscale > 0
     /\ statsCall.before.lines >= 0
     /\ statsCall.before.textSize >= 0)
    => /\ statsCall.after.x1 < statsCall.after.x2
       /\ statsCall.after.y1 < statsCall.after.y2

\* C27 as stated: in in-frame text mode, whatever of the wordmark and the
\* extra text is empty, every info line is drawn below the anchor
\* Y0 = 1-t-0.035*(1-t-b) and below every wordmark and extra-text line of the
\* call, and each info line is below the one before it.
C27_InfoLinesBelow ==
    InFrameText =>
        LET info == DrawsOf("info")
        IN  /\ \A i \in 1..Len(info) : info[i].y < PosY(lumiCall.pad)
            /\ \A i \in 1..Len(info) : \A k \in 1..Len(drawn) :
                  drawn[k].role \in {"cms", "extra"} => info[i].y < drawn[k].y
            /\ \A i \in 1..Len(info) - 1 : info[i + 1].y < info[i].y

\* C28: setCMSStyle leaves the luminosity and energy captions, the wordmark,
\* the extra text, the info lines, the logo file and the list of gradient
\* colours as they were; it writes the style only.
C28_StyleAloneChanges ==
    [][lastOp'.name = "setCMSStyle" =>
          /\ UNCHANGED <<cms_lumi, cms_energy, cmsText, extraText, additionalInfo,
                         useCmsLogo>>
          /\ UNCHANGED usingPalette2D
          /\ cmsStyle' = DefaultStyle]_vars

\* C28 witness: the style was applied again after the captions had been
\* changed and the gradient colours made; both are still there
C28_Witness ==
    /\ IsOp("setCMSStyle")
    /\ lastOp.args[2] # NullStyle
    /\ extraText = "Private work (CMS data)" /\ cmsText = ""
    /\ Len(usingPalette2D) = num_colors

====
